---- MODULE Spec2Model ----
(***************************************************************************)
(* MonoX workspace orchestration engine.                                   *)
(*                                                                         *)
(*   SpecPlan  - manifest scan, graph building, cycle detection and stage  *)
(*               planning (src/core/analyzer.rs)                           *)
(*   SpecSched - AsyncTaskScheduler::execute_batch / execute_task          *)
(*               (src/core/scheduler.rs)                                   *)
(*   SpecCallbacks - the same scheduler with its two callbacks set         *)
(*   SpecReuse - one scheduler that is handed several batches              *)
(*   SpecFair  - the scheduler under a fair runtime                        *)
(*   SpecSingle - the plan of one package and of its dependencies          *)
(*               (src/core/analyzer.rs, analyze_single_package)            *)
(*   SpecExec  - TaskExecutor: run a script stage by stage                 *)
(*               (src/core/executor.rs)                                    *)
(*   SpecScan  - the walks over the package.json files of the workspace    *)
(*   SpecVersion, SpecThreads - helpers of the health checker              *)
(*   SpecCli   - the worker threads of the outdated check of the cli       *)
(*               (src/cli/check.rs)                                        *)
(*   SpecCheck - HealthChecker: outdated dependencies, version conflicts   *)
(*               (src/core/checker.rs)                                     *)
(***************************************************************************)
EXTENDS Integers, Sequences, FiniteSets, TLC

VARIABLES
    \* ---- analyzer ----
    packages,               \* Vec<WorkspacePackage> pushed by the scan, in scan order
    stages,                 \* DependencyAnalysisResult.stages
    circular_dependencies,  \* DependencyAnalysisResult.circular_dependencies
    planPc,                 \* position in DependencyAnalyzer::analyze
    target,                 \* package_name of a single-package analysis ("none": whole workspace)
    \* ---- scheduler ----
    config,                 \* SchedulerConfig: max_concurrency, timeout, fail_fast
    tasks,                  \* the batch handed to execute_batch: task ids in order
    pc,                     \* position of every spawned task in execute_task
    result,                 \* TaskResult of every spawned task ("none" before)
    permits,                \* permits available in the semaphore
    should_stop,            \* the stop flag
    completed_count,
    successful_count,
    failed_count,
    task_status,            \* HashMap<String, TaskStatus>, keyed by task id
    batchPc,                \* position of execute_batch
    joined,                 \* number of handles execute_batch has awaited
    results,                \* the Vec execute_batch returns
    progress_log,           \* the (completed, total) pairs passed to progress_callback
    progress_calls,         \* per task: invocations of progress_callback it made
    task_completed_calls,   \* per task: invocations of task_completed_callback
    stop_all_called,        \* stop_all was called during the batch
    \* ---- executor ----
    continue_on_error,      \* TaskConfig.continue_on_error
    scripts,                \* names of the packages whose script map has the command
    status,                 \* Task.status of the task built for a package
    output,                 \* what command.output() gave for the task of a package
    stageIdx,               \* stage_idx of the loop of execute_stages (from 1)
    execPc,                 \* position of TaskExecutor::execute
    execError,              \* the error execute ends with ("none": no error)
    \* ---- health checker ----
    version_spec,           \* the version spec handed to the helpers of the checker
    version,                \* what extract_version_from_spec returned for it
    skip,                   \* what should_skip_dependency returned for it
    dependency_count,       \* argument of calculate_optimal_thread_count
    cpu_count,              \* available_parallelism of the host
    thread_count,           \* what calculate_optimal_thread_count returned
    package_files,          \* the parsed package.json files, in scan order
    unique_dependencies,    \* BTreeMap<String, DependencyInfo>
    registry,               \* per dependency name: what its lookup ends with
    outdated_deps,          \* the shared Vec<OutdatedDependency>
    found_packages,         \* the shared HashSet of outdated dependency names
    total_deps,             \* the total returned next to the records
    conflicts,              \* what check_version_conflicts returned
    payloadPc,              \* per dependency name: position of its lookup task
    checkPc,                \* position of the health checker
    workspace_files,        \* the package.json files under the workspace root, in walk order
    \* ---- cli check ----
    chunk_pos,              \* per spawned worker thread: dependencies of its chunk done
    lookup_count,           \* per dependency: calls of get_latest_version for it
    cli_joined              \* number of worker handles that were joined

planVars == <<packages, stages, circular_dependencies, planPc, target>>

counterVars == <<completed_count, successful_count, failed_count>>

logVars == <<progress_log, progress_calls, task_completed_calls, stop_all_called>>

schedVars == <<config, tasks, pc, result, permits, should_stop, counterVars,
               task_status, batchPc, joined, results, logVars>>

execVars == <<continue_on_error, scripts, status, output, stageIdx, execPc,
              execError>>

helperVars == <<version_spec, version, skip, dependency_count, thread_count>>

pipelineVars == <<package_files, unique_dependencies, registry, outdated_deps,
                  found_packages, total_deps, conflicts, payloadPc>>

cliVars == <<chunk_pos, lookup_count, cli_joined>>

checkVars == <<helperVars, cpu_count, pipelineVars, checkPc, workspace_files, cliVars>>

vars == <<planVars, schedVars, execVars, checkVars>>

(***************************************************************************)
(* Bounds and input sets                                                   *)
(***************************************************************************)
\* largest number of manifests a scan discovers
MaxPkgs == 3

\* largest batch handed to execute_batch
MaxTasks == 3

\* largest max_concurrency
MaxConcurrency == 2

\* task ids of a batch (String)
IdPool == <<"t1", "t2", "t3", "t4", "t5">>

\* package names that appear in manifests (as "name" or as a dependency key)
Names == {"a", "b", "c"}

\* a parsed manifest: name and the keys of the merged dependency map
Manifests == [name : Names, dependencies : SUBSET Names]

(***************************************************************************)
(* Helpers                                                                 *)
(***************************************************************************)
Range(s) == {s[i] : i \in 1..Len(s)}

RECURSIVE UnionOfStages(_)
UnionOfStages(ss) ==
    IF ss = <<>> THEN {} ELSE Head(ss) \cup UnionOfStages(Tail(ss))

(***************************************************************************)
(* src/core/analyzer.rs                                                    *)
(***************************************************************************)
\* package_names: HashSet of the names of all scanned packages
PackageNames(pkgs) == {pkgs[i].name : i \in 1..Len(pkgs)}

\* analyze_workspace_dependencies: every package keeps, as workspace
\* dependencies, the dependency keys that are names of scanned packages
analyze_workspace_dependencies(pkgs) ==
    [i \in 1..Len(pkgs) |->
        [name |-> pkgs[i].name,
         dependencies |-> pkgs[i].dependencies,
         workspace_dependencies |->
            {d \in pkgs[i].dependencies : d \in PackageNames(pkgs)}]]

\* node_map: name -> NodeIndex; HashMap::insert keeps the last inserted index
node_map(pkgs, n) ==
    CHOOSE i \in 1..Len(pkgs) :
        /\ pkgs[i].name = n
        /\ \A j \in 1..Len(pkgs) : pkgs[j].name = n => j <= i

\* build_dependency_graph: one node per scanned package (its position), and
\* for every package and every workspace dependency the edge dep -> package,
\* both endpoints looked up in node_map
build_dependency_graph(pkgs) ==
    [nodes |-> 1..Len(pkgs),
     edges |-> UNION {{<<node_map(pkgs, d), node_map(pkgs, pkgs[i].name)>> :
                          d \in pkgs[i].workspace_dependencies} :
                      i \in 1..Len(pkgs)}]

\* nodes reachable from the set S along the edges of g (S included)
RECURSIVE ReachFrom(_, _)
ReachFrom(g, S) ==
    LET T == S \cup {e[2] : e \in {f \in g.edges : f[1] \in S}}
    IN IF T = S THEN S ELSE ReachFrom(g, T)

\* petgraph::algo::tarjan_scc: the strongly connected components of g
tarjan_scc(g) ==
    {{m \in g.nodes : m \in ReachFrom(g, {n}) /\ n \in ReachFrom(g, {m})} :
        n \in g.nodes}

\* variant: a component counts as a cycle only from three nodes on
detect_circular_dependencies_gt2(pkgs, g) ==
    {{pkgs[n].name : n \in scc} :
        scc \in {s \in tarjan_scc(g) : Cardinality(s) > 2}}

\* detect_circular_dependencies: the components with more than one node,
\* each mapped to the names of its nodes
detect_circular_dependencies(pkgs, g) ==
    {{pkgs[n].name : n \in scc} :
        scc \in {s \in tarjan_scc(g) : Cardinality(s) > 1}}

\* package_map: name -> package; collect() into a HashMap keeps the last one
package_map(pkgs, n) == pkgs[node_map(pkgs, n)]

\* variant: any() in place of all()
can_build_now_any(pkgs, unstaged, n) ==
    \/ package_map(pkgs, n).workspace_dependencies = {}
    \/ \E dep \in package_map(pkgs, n).workspace_dependencies : dep \notin unstaged

\* can_build_now: all workspace dependencies are out of the unstaged set
can_build_now(pkgs, unstaged, n) ==
    \A dep \in package_map(pkgs, n).workspace_dependencies : dep \notin unstaged

\* the while loop of calculate_build_stages
RECURSIVE build_stages_loop(_, _, _)
build_stages_loop(pkgs, unstaged, acc) ==
    IF unstaged = {} THEN acc
    ELSE LET current_stage == {n \in unstaged : can_build_now(pkgs, unstaged, n)}
         IN IF current_stage = {} THEN acc
            ELSE build_stages_loop(pkgs, unstaged \ current_stage,
                                   Append(acc, current_stage))

\* calculate_build_stages
calculate_build_stages(pkgs) ==
    build_stages_loop(pkgs, PackageNames(pkgs), <<>>)

\* DependencyAnalyzer::analyze, steps 2-5
analyze(pkgs) ==
    LET analysed == analyze_workspace_dependencies(pkgs)
        graph == build_dependency_graph(analysed)
        cycles == detect_circular_dependencies(analysed, graph)
    IN [packages |-> analysed,
        circular_dependencies |-> cycles,
        stages |-> IF cycles = {} THEN calculate_build_stages(analysed)
                   ELSE <<>>]

\* iter().find(|p| p.name == n): the position of the first package named n
find_package(pkgs, n) ==
    CHOOSE i \in 1..Len(pkgs) :
        /\ pkgs[i].name = n
        /\ \A j \in 1..Len(pkgs) : pkgs[j].name = n => i <= j

\* add_dependencies_for_single_package: the names visited, starting from
\* the set S of names already visited; the workspace dependencies of each
\* visited package (the first one of that name) are visited in turn
RECURSIVE add_dependencies_for_single_package(_, _)
add_dependencies_for_single_package(pkgs, S) ==
    LET T == S \cup UNION {{d \in pkgs[find_package(pkgs, n)].workspace_dependencies :
                                d \in PackageNames(pkgs)} : n \in S}
    IN IF T = S THEN S ELSE add_dependencies_for_single_package(pkgs, T)

\* the packages at the positions I, in list order
RECURSIVE PackagesAt(_, _, _)
PackagesAt(pkgs, I, k) ==
    IF k > Len(pkgs) THEN <<>>
    ELSE (IF k \in I THEN <<pkgs[k]>> ELSE <<>>) \o PackagesAt(pkgs, I, k + 1)

\* get_related_packages: the dependency chain of the target, then the
\* target itself unless the chain already holds its name (the order of the
\* Vec is left out: calculate_build_stages does not depend on it)
get_related_packages(pkgs, T) ==
    LET target_package == pkgs[find_package(pkgs, T)]
        S0 == {d \in target_package.workspace_dependencies : d \in PackageNames(pkgs)}
        package_names == add_dependencies_for_single_package(pkgs, S0) \cup {T}
    IN PackagesAt(pkgs, {find_package(pkgs, n) : n \in package_names}, 1)

\* variant: the stages of the related packages are computed whether or not
\* the target is on a cycle
analyze_single_package_unchecked(pkgs, T) ==
    LET full_result == analyze(pkgs)
    IN IF T \notin PackageNames(full_result.packages)
       THEN [found |-> FALSE]
       ELSE [found |-> TRUE,
             packages |-> <<full_result.packages[find_package(full_result.packages, T)]>>,
             stages |-> calculate_build_stages(
                            get_related_packages(full_result.packages, T)),
             circular_dependencies |-> full_result.circular_dependencies]

\* analyze_single_package
analyze_single_package(pkgs, T) ==
    LET full_result == analyze(pkgs)
    IN IF T \notin PackageNames(full_result.packages)
       THEN [found |-> FALSE]
       ELSE LET related_packages == get_related_packages(full_result.packages, T)
                target_in_cycle ==
                    \E cycle \in full_result.circular_dependencies : T \in cycle
            IN [found |-> TRUE,
                packages |-> <<full_result.packages[find_package(full_result.packages, T)]>>,
                stages |-> IF full_result.circular_dependencies = {}
                           THEN calculate_build_stages(related_packages)
                           ELSE IF target_in_cycle THEN <<>>
                                ELSE calculate_build_stages(related_packages),
                circular_dependencies |-> full_result.circular_dependencies]

(***************************************************************************)
(* Analyzer actions                                                        *)
(***************************************************************************)
PlanInit ==
    /\ packages = <<>>
    /\ stages = <<>>
    /\ circular_dependencies = {}
    /\ planPc = "scan"
    /\ target = "none"

\* the scheduler before it is constructed
SchedIdle ==
    /\ config = [max_concurrency |-> 1, timeout |-> FALSE, fail_fast |-> FALSE,
                 progress_callback |-> FALSE, task_completed_callback |-> FALSE]
    /\ tasks = <<>>
    /\ pc = <<>>
    /\ result = <<>>
    /\ permits = 0
    /\ should_stop = FALSE
    /\ completed_count = 0
    /\ successful_count = 0
    /\ failed_count = 0
    /\ task_status = <<>>
    /\ batchPc = "none"
    /\ joined = 0
    /\ results = <<>>
    /\ progress_log = <<>>
    /\ progress_calls = <<>>
    /\ task_completed_calls = <<>>
    /\ stop_all_called = FALSE

\* no run of the executor
ExecIdle ==
    /\ continue_on_error = FALSE
    /\ scripts = {}
    /\ status = [n \in Names |-> "NoTask"]
    /\ output = [n \in Names |-> "none"]
    /\ stageIdx = 0
    /\ execPc = "none"
    /\ execError = "none"

\* no version spec and no dependency count handed to the helpers
HelperIdle ==
    /\ version_spec = <<>>
    /\ version = <<>>
    /\ skip = FALSE
    /\ dependency_count = 0
    /\ thread_count = 0

\* no package file collected, no lookup task built
PipelineIdle ==
    /\ package_files = <<>>
    /\ unique_dependencies = <<>>
    /\ registry = <<>>
    /\ outdated_deps = <<>>
    /\ found_packages = {}
    /\ total_deps = 0
    /\ conflicts = <<>>
    /\ payloadPc = <<>>

\* no file system walk and no worker thread of the cli
CliIdle ==
    /\ workspace_files = <<>>
    /\ chunk_pos = <<>>
    /\ lookup_count = <<>>
    /\ cli_joined = 0

\* no run of the health checker
CheckIdle ==
    /\ HelperIdle
    /\ PipelineIdle
    /\ CliIdle
    /\ cpu_count = 1
    /\ checkPc = "none"

\* scan_workspace_packages: one more manifest is found, parsed and pushed
ScanPackage ==
    /\ planPc = "scan"
    /\ Len(packages) < MaxPkgs
    /\ \E m \in Manifests :
          packages' = Append(packages,
                             [name |-> m.name,
                              dependencies |-> m.dependencies,
                              workspace_dependencies |-> {}])
    /\ UNCHANGED <<stages, circular_dependencies, planPc, target>>
    /\ UNCHANGED <<schedVars, execVars, checkVars>>

\* scan_workspace_packages ends with no package: bail!(error.no_packages_found)
ScanEmpty ==
    /\ planPc = "scan"
    /\ packages = <<>>
    /\ planPc' = "error"
    /\ UNCHANGED <<packages, stages, circular_dependencies, target>>
    /\ UNCHANGED <<schedVars, execVars, checkVars>>

\* analyze, after a scan that found at least one package
Analyze ==
    /\ planPc = "scan"
    /\ packages # <<>>
    /\ LET r == analyze(packages)
       IN /\ packages' = r.packages
          /\ stages' = r.stages
          /\ circular_dependencies' = r.circular_dependencies
    /\ planPc' = "analyzed"
    /\ UNCHANGED target
    /\ UNCHANGED <<schedVars, execVars, checkVars>>

\* the package names a single-package analysis is asked for: one name is
\* enough, since the scans are closed under renaming of the packages and
\* the name may or may not be among the scanned ones
TargetNames == {"a"}

\* analyze_single_package for a package name, after a scan that found at
\* least one package: package_not_found, or the stages of the related
\* packages and the cycles of the whole workspace (packages keeps the scan;
\* the packages field of the result is the target alone)
AnalyzeSingle ==
    /\ planPc = "scan"
    /\ packages # <<>>
    /\ \E T \in TargetNames :
          LET r == analyze_single_package(packages, T)
          IN /\ target' = T
             /\ IF r.found
                THEN /\ stages' = r.stages
                     /\ circular_dependencies' = r.circular_dependencies
                     /\ planPc' = "analyzed_single"
                ELSE /\ planPc' = "error"
                     /\ UNCHANGED <<stages, circular_dependencies>>
    /\ UNCHANGED packages
    /\ UNCHANGED <<schedVars, execVars, checkVars>>

PlanNext == ScanPackage \/ ScanEmpty \/ Analyze

PlanSpecInit == PlanInit /\ SchedIdle /\ ExecIdle /\ CheckIdle

SpecPlan == PlanSpecInit /\ [][PlanNext]_vars

\* the analyzer asked for the plan of one package
SingleNext == ScanPackage \/ ScanEmpty \/ AnalyzeSingle

SpecSingle == PlanSpecInit /\ [][SingleNext]_vars

(***************************************************************************)
(* src/core/scheduler.rs                                                   *)
(***************************************************************************)
TaskIndices == 1..Len(tasks)

\* TaskResult variants a payload that runs can end with: Ok(v) -> Success,
\* Err(e) -> Failed, and Timeout when a timeout is configured and elapses
RunOutcomes(cfg) ==
    {"Success", "Failed"} \cup (IF cfg.timeout THEN {"Timeout"} ELSE {})

\* variant: a timeout is taken for a success
is_success_or_timeout(r) == r \in {"Success", "Timeout"}

\* matches!(result, TaskResult::Success(_))
is_success(r) == r = "Success"

\* tasks holding a semaphore permit: past acquire() and not yet returned
HoldsPermit(i) == pc[i] \in {"running", "completed", "counted", "tallied", "reported"}

\* the spawned task has ended: execute_task returned or the task panicked
Ended(i) == pc[i] \in {"done", "panicked"}

\* AsyncTaskScheduler::new for a configuration, with a batch about to be submitted
SchedNew(cfg, batch) ==
    /\ config = cfg
    /\ tasks = batch
    /\ pc = [i \in 1..Len(batch) |-> "unspawned"]
    /\ result = [i \in 1..Len(batch) |-> "none"]
    /\ permits = cfg.max_concurrency
    /\ should_stop = FALSE
    /\ completed_count = 0
    /\ successful_count = 0
    /\ failed_count = 0
    /\ task_status = <<>>
    /\ batchPc = "idle"
    /\ joined = 0
    /\ results = <<>>
    /\ progress_log = <<>>
    /\ progress_calls = [i \in 1..Len(batch) |-> 0]
    /\ task_completed_calls = [i \in 1..Len(batch) |-> 0]
    /\ stop_all_called = FALSE

\* record_task_start: insert (or overwrite) the entry of the task id
record_task_start(id) ==
    [x \in (DOMAIN task_status) \cup {id} |->
        IF x = id THEN [is_completed |-> FALSE, is_success |-> FALSE]
        ELSE task_status[x]]

\* variant: every entry of the map is marked, whatever its id
record_task_completion_all(id, ok) ==
    [x \in DOMAIN task_status |-> [is_completed |-> TRUE, is_success |-> ok]]

\* record_task_completion: mark the entry of the task id, when there is one
record_task_completion(id, ok) ==
    [x \in DOMAIN task_status |->
        IF x = id THEN [is_completed |-> TRUE, is_success |-> ok]
        ELSE task_status[x]]

\* execute_batch, up to the end of the spawn loop: an empty batch returns at
\* once; otherwise the stop flag and the counters are reset and one task is
\* spawned per entry
ExecuteBatchBegin ==
    /\ batchPc = "idle"
    /\ IF tasks = <<>>
       THEN /\ batchPc' = "returned"
            /\ results' = <<>>
            /\ UNCHANGED <<should_stop, counterVars, pc>>
       ELSE /\ batchPc' = "joining"
            /\ should_stop' = FALSE
            /\ completed_count' = 0
            /\ successful_count' = 0
            /\ failed_count' = 0
            /\ pc' = [i \in TaskIndices |-> "spawned"]
            /\ UNCHANGED results
    /\ UNCHANGED <<config, tasks, result, permits, task_status, joined>>
    /\ UNCHANGED logVars

\* variant: a task that finds the stop flag set is counted as completed
CheckStop_counted(i) ==
    /\ pc[i] = "spawned"
    /\ IF should_stop
       THEN /\ result' = [result EXCEPT ![i] = "Cancelled"]
            /\ pc' = [pc EXCEPT ![i] = "done"]
            /\ completed_count' = completed_count + 1
       ELSE /\ pc' = [pc EXCEPT ![i] = "waiting"]
            /\ UNCHANGED <<result, completed_count>>
    /\ UNCHANGED <<config, tasks, permits, should_stop, successful_count,
                   failed_count, task_status, batchPc, joined, results>>
    /\ UNCHANGED logVars

\* execute_task: the stop flag is read before the permit is asked for
CheckStop(i) ==
    /\ pc[i] = "spawned"
    /\ IF should_stop
       THEN /\ result' = [result EXCEPT ![i] = "Cancelled"]
            /\ pc' = [pc EXCEPT ![i] = "done"]
       ELSE /\ pc' = [pc EXCEPT ![i] = "waiting"]
            /\ UNCHANGED result
    /\ UNCHANGED <<config, tasks, permits, should_stop, counterVars,
                   task_status, batchPc, joined, results>>
    /\ UNCHANGED logVars

\* variant: the task goes on without waiting for a free permit
AcquirePermit_unbounded(i) ==
    /\ pc[i] = "waiting"
    /\ permits' = permits - 1
    /\ task_status' = record_task_start(tasks[i])
    /\ pc' = [pc EXCEPT ![i] = "running"]
    /\ UNCHANGED <<config, tasks, result, should_stop, counterVars,
                   batchPc, joined, results>>
    /\ UNCHANGED logVars

\* execute_task: semaphore.acquire() succeeds, then record_task_start
AcquirePermit(i) ==
    /\ pc[i] = "waiting"
    /\ permits > 0
    /\ permits' = permits - 1
    /\ task_status' = record_task_start(tasks[i])
    /\ pc' = [pc EXCEPT ![i] = "running"]
    /\ UNCHANGED <<config, tasks, result, should_stop, counterVars,
                   batchPc, joined, results>>
    /\ UNCHANGED logVars

\* execute_task: the payload (or the timeout race) ends with outcome r, then
\* record_task_completion
FinishPayload(i, r) ==
    /\ pc[i] = "running"
    /\ result' = [result EXCEPT ![i] = r]
    /\ task_status' = record_task_completion(tasks[i], is_success(r))
    /\ pc' = [pc EXCEPT ![i] = "completed"]
    /\ UNCHANGED <<config, tasks, permits, should_stop, counterVars,
                   batchPc, joined, results>>
    /\ UNCHANGED logVars

\* variant: the permit of a task that panics is never given back
PanicPayload_leak(i) ==
    /\ pc[i] = "running"
    /\ pc' = [pc EXCEPT ![i] = "panicked"]
    /\ UNCHANGED <<config, tasks, result, permits, should_stop, counterVars,
                   task_status, batchPc, joined, results>>
    /\ UNCHANGED logVars

\* the payload panics: the spawned task unwinds, which drops its permit, and
\* its JoinHandle will yield a JoinError
PanicPayload(i) ==
    /\ pc[i] = "running"
    /\ permits' = permits + 1
    /\ pc' = [pc EXCEPT ![i] = "panicked"]
    /\ UNCHANGED <<config, tasks, result, should_stop, counterVars,
                   task_status, batchPc, joined, results>>
    /\ UNCHANGED logVars

\* update_counters_and_progress: completed_count += 1
CountCompleted(i) ==
    /\ pc[i] = "completed"
    /\ completed_count' = completed_count + 1
    /\ pc' = [pc EXCEPT ![i] = "counted"]
    /\ UNCHANGED <<config, tasks, result, permits, should_stop, successful_count,
                   failed_count, task_status, batchPc, joined, results>>
    /\ UNCHANGED logVars

\* update_counters_and_progress: successful_count or failed_count += 1
CountOutcome(i) ==
    /\ pc[i] = "counted"
    /\ IF is_success(result[i])
       THEN successful_count' = successful_count + 1 /\ UNCHANGED failed_count
       ELSE failed_count' = failed_count + 1 /\ UNCHANGED successful_count
    /\ pc' = [pc EXCEPT ![i] = "tallied"]
    /\ UNCHANGED <<config, tasks, result, permits, should_stop, completed_count,
                   task_status, batchPc, joined, results>>
    /\ UNCHANGED logVars

\* update_counters_and_progress: progress_callback, when there is one, gets
\* completed_count as read now and the size of the task-status map;
\* execute_task: then task_completed_callback, when there is one, is called
ReportProgress(i) ==
    /\ pc[i] = "tallied"
    /\ IF config.progress_callback
       THEN /\ progress_log' = Append(progress_log,
                                      <<completed_count, Cardinality(DOMAIN task_status)>>)
            /\ progress_calls' = [progress_calls EXCEPT ![i] = @ + 1]
       ELSE UNCHANGED <<progress_log, progress_calls>>
    /\ IF config.task_completed_callback
       THEN task_completed_calls' = [task_completed_calls EXCEPT ![i] = @ + 1]
       ELSE UNCHANGED task_completed_calls
    /\ pc' = [pc EXCEPT ![i] = "reported"]
    /\ UNCHANGED <<config, tasks, result, permits, should_stop, counterVars,
                   task_status, batchPc, joined, results, stop_all_called>>

\* stop_all, called while execute_batch is under way
StopAll ==
    /\ batchPc = "joining"
    /\ should_stop' = TRUE
    /\ stop_all_called' = TRUE
    /\ UNCHANGED <<config, tasks, pc, result, permits, counterVars, task_status,
                   batchPc, joined, results, progress_log, progress_calls,
                   task_completed_calls>>

\* variant: the stop flag is set after a non-success whatever fail_fast is
ReturnTask_always_stop(i) ==
    /\ pc[i] = "reported"
    /\ should_stop' = IF ~is_success(result[i]) THEN TRUE ELSE should_stop
    /\ permits' = permits + 1
    /\ pc' = [pc EXCEPT ![i] = "done"]
    /\ UNCHANGED <<config, tasks, result, counterVars, task_status,
                   batchPc, joined, results>>
    /\ UNCHANGED logVars

\* execute_task: fail_fast sets the stop flag after a non-success; the
\* function returns its result and the permit is dropped
ReturnTask(i) ==
    /\ pc[i] = "reported"
    /\ should_stop' = IF config.fail_fast /\ ~is_success(result[i])
                      THEN TRUE ELSE should_stop
    /\ permits' = permits + 1
    /\ pc' = [pc EXCEPT ![i] = "done"]
    /\ UNCHANGED <<config, tasks, result, counterVars, task_status,
                   batchPc, joined, results>>
    /\ UNCHANGED logVars

\* variant: the handle is polled once instead of awaited
JoinHandle_nowait ==
    /\ batchPc = "joining"
    /\ joined < Len(tasks)
    /\ results' = IF pc[joined + 1] = "done"
                  THEN Append(results, <<tasks[joined + 1], result[joined + 1]>>)
                  ELSE results
    /\ joined' = joined + 1
    /\ UNCHANGED <<config, tasks, pc, result, permits, should_stop, counterVars,
                   task_status, batchPc>>
    /\ UNCHANGED logVars

\* execute_batch: the next handle, in submission order, is awaited; Ok pushes
\* (task_id, result), a JoinError is logged and pushes nothing
JoinHandle ==
    /\ batchPc = "joining"
    /\ joined < Len(tasks)
    /\ Ended(joined + 1)
    /\ results' = IF pc[joined + 1] = "done"
                  THEN Append(results, <<tasks[joined + 1], result[joined + 1]>>)
                  ELSE results
    /\ joined' = joined + 1
    /\ UNCHANGED <<config, tasks, pc, result, permits, should_stop, counterVars,
                   task_status, batchPc>>
    /\ UNCHANGED logVars

\* execute_batch: all handles awaited, the results are returned
ReturnBatch ==
    /\ batchPc = "joining"
    /\ joined = Len(tasks)
    /\ batchPc' = "returned"
    /\ UNCHANGED <<config, tasks, pc, result, permits, should_stop, counterVars,
                   task_status, joined, results>>
    /\ UNCHANGED logVars

(***************************************************************************)
(* The scheduler on its own: one scheduler, one batch                      *)
(***************************************************************************)
SchedConfigs ==
    [max_concurrency : 1..MaxConcurrency, timeout : BOOLEAN, fail_fast : BOOLEAN,
     progress_callback : {FALSE}, task_completed_callback : {FALSE}]

\* batches of up to MaxTasks tasks, with unique ids or with repeated ids
Batches ==
    {[i \in 1..n |-> IdPool[i]] : n \in 0..MaxTasks} \cup
    {[i \in 1..n |-> IdPool[(i + 1) \div 2]] : n \in 0..MaxTasks}

SchedInit ==
    /\ PlanInit
    /\ ExecIdle
    /\ CheckIdle
    /\ \E cfg \in SchedConfigs, batch \in Batches : SchedNew(cfg, batch)

SchedBegin == ExecuteBatchBegin /\ UNCHANGED <<planVars, execVars, checkVars>>
SchedCheckStop == \E i \in TaskIndices : CheckStop(i) /\ UNCHANGED <<planVars, execVars, checkVars>>
SchedAcquire == \E i \in TaskIndices : AcquirePermit(i) /\ UNCHANGED <<planVars, execVars, checkVars>>
SchedFinish ==
    \E i \in TaskIndices : \E r \in RunOutcomes(config) :
        FinishPayload(i, r) /\ UNCHANGED <<planVars, execVars, checkVars>>
SchedPanic == \E i \in TaskIndices : PanicPayload(i) /\ UNCHANGED <<planVars, execVars, checkVars>>
SchedCountCompleted == \E i \in TaskIndices : CountCompleted(i) /\ UNCHANGED <<planVars, execVars, checkVars>>
SchedCountOutcome == \E i \in TaskIndices : CountOutcome(i) /\ UNCHANGED <<planVars, execVars, checkVars>>
SchedReport == \E i \in TaskIndices : ReportProgress(i) /\ UNCHANGED <<planVars, execVars, checkVars>>
SchedReturnTask == \E i \in TaskIndices : ReturnTask(i) /\ UNCHANGED <<planVars, execVars, checkVars>>
SchedJoin == JoinHandle /\ UNCHANGED <<planVars, execVars, checkVars>>
SchedReturnBatch == ReturnBatch /\ UNCHANGED <<planVars, execVars, checkVars>>
SchedStopAll == StopAll /\ UNCHANGED <<planVars, execVars, checkVars>>

SchedNext ==
    \/ SchedBegin
    \/ SchedCheckStop
    \/ SchedAcquire
    \/ SchedFinish
    \/ SchedPanic
    \/ SchedCountCompleted
    \/ SchedCountOutcome
    \/ SchedReport
    \/ SchedReturnTask
    \/ SchedJoin
    \/ SchedReturnBatch
    \/ SchedStopAll

SpecSched == SchedInit /\ [][SchedNext]_vars

\* the same scheduler with both callbacks set in its config; the payloads
\* finish within the timeout, when there is one
CallbackConfigs ==
    [max_concurrency : 1..MaxConcurrency, timeout : {FALSE}, fail_fast : BOOLEAN,
     progress_callback : {TRUE}, task_completed_callback : {TRUE}]

CallbackInit ==
    /\ PlanInit
    /\ ExecIdle
    /\ CheckIdle
    /\ \E cfg \in CallbackConfigs, batch \in Batches : SchedNew(cfg, batch)

SpecCallbacks == CallbackInit /\ [][SchedNext]_vars

\* the tasks of the batch that hold a permit
Running == {i \in TaskIndices : HoldsPermit(i)}

\* number of entries of the sequence seq whose task id is id
RECURSIVE CountId(_, _)
CountId(seq, id) ==
    IF seq = <<>> THEN 0
    ELSE (IF Head(seq) = id THEN 1 ELSE 0) + CountId(Tail(seq), id)

\* the task ids of the returned (task_id, result) list
ResultIds == [k \in 1..Len(results) |-> results[k][1]]

(***************************************************************************)
(* C1: during execute_batch the number of running tasks (permit acquired   *)
(* in execute_task, not yet returned) never exceeds max_concurrency.       *)
(***************************************************************************)
C1_RunningAtMostMaxConcurrency ==
    batchPc # "none" =>
        /\ Cardinality(Running) <= config.max_concurrency
        /\ Cardinality(Running) + permits = config.max_concurrency

\* the gate is full while another task of the batch waits for a permit
C1_Witness ==
    /\ batchPc = "joining"
    /\ Len(tasks) > config.max_concurrency
    /\ Cardinality(Running) = config.max_concurrency
    /\ \E i \in TaskIndices : pc[i] = "waiting"

(***************************************************************************)
(* C2: with fail_fast = true, once a task of the batch has ended Failed or *)
(* Timeout, no other task of the batch becomes running afterwards, tasks   *)
(* that were already waiting for a permit included.                        *)
(***************************************************************************)
C2_NoStartAfterFailure ==
    [][(/\ batchPc = "joining"
        /\ config.fail_fast
        /\ \E j \in TaskIndices :
              pc[j] = "done" /\ result[j] \in {"Failed", "Timeout"})
       => \A i \in TaskIndices : pc[i] # "running" => pc'[i] # "running"]_vars

(***************************************************************************)
(* C3: the list execute_batch returns has exactly one (task_id, result)    *)
(* entry per submitted task: same length, same multiset of task ids,       *)
(* whatever the outcomes of the tasks.                                     *)
(***************************************************************************)
C3_OneResultPerTask ==
    batchPc = "returned" =>
        /\ Len(results) = Len(tasks)
        /\ \A id \in Range(tasks) \cup Range(ResultIds) :
              CountId(ResultIds, id) = CountId(tasks, id)

(***************************************************************************)
(* C4: when execute_batch returns, no task of the batch is pending or      *)
(* running: every spawned task has ended.                                  *)
(***************************************************************************)
C4_ReturnsAfterAllTasksEnd ==
    batchPc = "returned" => \A i \in TaskIndices : Ended(i)

\* a returned batch of several tasks that ended in different ways
C4_Witness ==
    /\ batchPc = "returned"
    /\ Len(tasks) >= 2
    /\ \E i, j \in TaskIndices : result[i] = "Success" /\ result[j] = "Failed"

(***************************************************************************)
(* The workspace graph of the data model, over package names: an edge      *)
(* d -> P for every scanned package P and every dependency key d of P that *)
(* is the name of a scanned package.                                       *)
(***************************************************************************)
WorkspaceGraph(pkgs) ==
    [nodes |-> PackageNames(pkgs),
     edges |-> UNION {{<<d, pkgs[i].name>> :
                          d \in pkgs[i].dependencies \cap PackageNames(pkgs)} :
                      i \in 1..Len(pkgs)}]

\* the strongly connected components of size >= 2 of the workspace graph
NontrivialSCCs(pkgs) ==
    LET g == WorkspaceGraph(pkgs)
        reach == [n \in g.nodes |-> ReachFrom(g, {n})]
    IN {scc \in {{m \in g.nodes : m \in reach[n] /\ n \in reach[m]} : n \in g.nodes} :
            Cardinality(scc) >= 2}

\* the stages before stage k, as one set
EarlierStages(k) == UnionOfStages(SubSeq(stages, 1, k - 1))

(***************************************************************************)
(* C6: in every stage list the planner produces, complete or cut short,    *)
(* every package of stage k has all its workspace dependencies in the      *)
(* stages before k.                                                        *)
(***************************************************************************)
C6_StageDepsInEarlierStages ==
    planPc = "analyzed" =>
        \A k \in 1..Len(stages) : \A n \in stages[k] :
            package_map(packages, n).workspace_dependencies \subseteq EarlierStages(k)

\* a planned three-stage chain whose last package has a workspace dependency
C6_Witness ==
    /\ planPc = "analyzed"
    /\ Len(stages) = 3
    /\ \E n \in stages[3] : package_map(packages, n).workspace_dependencies # {}

(***************************************************************************)
(* C7: when the workspace graph has no strongly connected component of     *)
(* size >= 2 (a package that lists its own name included), the union of    *)
(* the stages returned by analyze is the whole package set.                *)
(***************************************************************************)
C7_StagesCoverAllPackages ==
    (planPc = "analyzed" /\ NontrivialSCCs(packages) = {}) =>
        UnionOfStages(stages) = PackageNames(packages)

(***************************************************************************)
(* C8: when the workspace graph has a strongly connected component of size *)
(* >= 2, analyze returns no stage, and the cycle list is, as a set of      *)
(* sets, the set of the components of size >= 2.                           *)
(***************************************************************************)
C8_CyclesAreNontrivialSCCs ==
    (planPc = "analyzed" /\ NontrivialSCCs(packages) # {}) =>
        /\ stages = <<>>
        /\ circular_dependencies = NontrivialSCCs(packages)

\* an analysed workspace with a two-package cycle next to an acyclic package
C8_Witness ==
    /\ planPc = "analyzed"
    /\ \E scc \in circular_dependencies : Cardinality(scc) = 2
    /\ Len(packages) = 3
    /\ stages = <<>>

(***************************************************************************)
(* src/core/executor.rs: TaskExecutor::execute with all = true             *)
(***************************************************************************)
\* the orders in which the packages of a stage can sit in its Vec
Orderings(S) ==
    {seq \in [1..Cardinality(S) -> S] : \A x \in S : \E k \in DOMAIN seq : seq[k] = x}

\* results of command.output(): Err, or a child that exited with/without success
ChildOutcomes == {"spawn_error", "exit_ok", "exit_failure"}

\* a scanned package, before analyze_workspace_dependencies
Pkg(n, deps) == [name |-> n, dependencies |-> deps, workspace_dependencies |-> {}]

\* the workspaces the executor is run on
ExecWorkspaces ==
    { <<Pkg("a", {}), Pkg("b", {"a"}), Pkg("c", {"b"})>>,
      <<Pkg("a", {}), Pkg("b", {"a"}), Pkg("c", {"a"})>>,
      <<Pkg("a", {}), Pkg("b", {}), Pkg("c", {"a", "b"})>>,
      <<Pkg("a", {}), Pkg("b", {})>>,
      <<Pkg("a", {}), Pkg("b", {}), Pkg("c", {})>>,
      <<Pkg("a", {"b"}), Pkg("b", {"a"})>>,
      <<Pkg("a", {"b"}), Pkg("b", {"a"}), Pkg("c", {})>>,
      <<Pkg("a", {"a"}), Pkg("b", {})>> }

\* TaskExecutor::new / new_from_config, the workspace on disk, and the
\* arguments of execute: all packages (target "none") or one package name
ExecInit ==
    /\ \E ws \in ExecWorkspaces : packages = ws
    /\ stages = <<>>
    /\ circular_dependencies = {}
    /\ planPc = "scan"
    /\ target \in {"none"} \cup Names
    /\ SchedIdle
    /\ CheckIdle
    /\ continue_on_error \in BOOLEAN
    /\ scripts \in SUBSET PackageNames(packages)
    /\ status = [n \in Names |-> "NoTask"]
    /\ output = [n \in Names |-> "none"]
    /\ stageIdx = 0
    /\ execPc = "start"
    /\ execError = "none"

\* execute_all_packages: analyze the workspace
ExecAnalyze ==
    /\ execPc = "start"
    /\ target = "none"
    /\ LET r == analyze(packages)
       IN /\ packages' = r.packages
          /\ stages' = r.stages
          /\ circular_dependencies' = r.circular_dependencies
    /\ planPc' = "analyzed"
    /\ UNCHANGED target
    /\ execPc' = "filter"
    /\ UNCHANGED schedVars
    /\ UNCHANGED <<checkVars, continue_on_error, scripts, status, output, stageIdx, execError>>

\* execute_all_packages: no package has the script -> bail
ExecNoExecutable ==
    /\ execPc = "filter"
    /\ PackageNames(packages) \cap scripts = {}
    /\ execPc' = "err"
    /\ execError' = "no_executable_packages"
    /\ UNCHANGED <<planVars, schedVars>>
    /\ UNCHANGED <<checkVars, continue_on_error, scripts, status, output, stageIdx>>

\* execute_all_packages: some package has the script -> execute_stages
ExecStages ==
    /\ execPc = "filter"
    /\ PackageNames(packages) \cap scripts # {}
    /\ execPc' = "stages"
    /\ stageIdx' = 1
    /\ UNCHANGED <<planVars, schedVars>>
    /\ UNCHANGED <<checkVars, continue_on_error, scripts, status, output, execError>>

\* execute_stages: the loop over the stages is over -> Ok(())
ExecFinish ==
    /\ execPc = "stages"
    /\ stageIdx > Len(stages)
    /\ execPc' = "ok"
    /\ UNCHANGED <<planVars, schedVars>>
    /\ UNCHANGED <<checkVars, continue_on_error, scripts, status, output, stageIdx, execError>>

\* execute_single_stage, stage.len() == 1: the Task of the package is built
ExecBeginSingle ==
    /\ execPc = "stages"
    /\ stageIdx <= Len(stages)
    /\ Cardinality(stages[stageIdx]) = 1
    /\ status' = [n \in Names |-> IF n \in stages[stageIdx] THEN "Pending" ELSE status[n]]
    /\ execPc' = "single"
    /\ UNCHANGED <<planVars, schedVars>>
    /\ UNCHANGED <<checkVars, continue_on_error, scripts, output, stageIdx, execError>>

\* variant: task.start() sets Running whether or not the script is there
task_start_always_running(n) == "Running"

\* execute_single_package: analyze_single_package for the package name; its
\* error (package not found) is propagated by ?
ExecAnalyzeSingle ==
    /\ execPc = "start"
    /\ target # "none"
    /\ LET r == analyze_single_package(packages, target)
       IN IF r.found
          THEN /\ stages' = r.stages
               /\ circular_dependencies' = r.circular_dependencies
               /\ planPc' = "analyzed_single"
               /\ execPc' = "check_script"
               /\ UNCHANGED execError
          ELSE /\ planPc' = "error"
               /\ execPc' = "err"
               /\ execError' = "package_not_found"
               /\ UNCHANGED <<stages, circular_dependencies>>
    /\ UNCHANGED <<packages, target>>
    /\ UNCHANGED schedVars
    /\ UNCHANGED <<checkVars, continue_on_error, scripts, status, output, stageIdx>>

\* execute_single_package: the target lacks the script -> bail
ExecScriptMissing ==
    /\ execPc = "check_script"
    /\ target \notin scripts
    /\ execPc' = "err"
    /\ execError' = "script_not_found"
    /\ UNCHANGED <<planVars, schedVars>>
    /\ UNCHANGED <<checkVars, continue_on_error, scripts, status, output, stageIdx>>

\* variant: the stages are executed without looking at the target's scripts
ExecSingleStages_unchecked ==
    /\ execPc = "check_script"
    /\ execPc' = "stages"
    /\ stageIdx' = 1
    /\ UNCHANGED <<planVars, schedVars>>
    /\ UNCHANGED <<checkVars, continue_on_error, scripts, status, output, execError>>

\* execute_single_package: the target has the script -> execute_stages
ExecSingleStages ==
    /\ execPc = "check_script"
    /\ target \in scripts
    /\ execPc' = "stages"
    /\ stageIdx' = 1
    /\ UNCHANGED <<planVars, schedVars>>
    /\ UNCHANGED <<checkVars, continue_on_error, scripts, status, output, execError>>

\* execute_task: task.start() sets Running when the package has the script,
\* and Skipped otherwise
task_start(n) == IF n \in scripts THEN "Running" ELSE "Skipped"

\* task.complete(result): Success or Failed after the exit status of the child
task_complete(out) == IF out = "exit_ok" THEN "Success" ELSE "Failed"

\* execute_task on the single package: task.start(); a skipped task returns Ok
ExecSingleStart ==
    /\ execPc = "single"
    /\ \E n \in stages[stageIdx] :
          /\ status[n] = "Pending"
          /\ status' = [status EXCEPT ![n] = task_start(n)]
          /\ IF task_start(n) = "Skipped"
             THEN execPc' = "stages" /\ stageIdx' = stageIdx + 1
             ELSE UNCHANGED <<execPc, stageIdx>>
    /\ UNCHANGED <<planVars, schedVars>>
    /\ UNCHANGED <<checkVars, continue_on_error, scripts, output, execError>>

\* execute_task on the single package: run_command; a launch error is
\* propagated by ?, any exit status completes the task and returns Ok(())
ExecSingleRun ==
    /\ execPc = "single"
    /\ \E n \in stages[stageIdx] : \E out \in ChildOutcomes :
          /\ status[n] = "Running"
          /\ output' = [output EXCEPT ![n] = out]
          /\ IF out = "spawn_error"
             THEN /\ execPc' = "err"
                  /\ execError' = "command_failed"
                  /\ UNCHANGED <<status, stageIdx>>
             ELSE /\ status' = [status EXCEPT ![n] = task_complete(out)]
                  /\ execPc' = "stages"
                  /\ stageIdx' = stageIdx + 1
                  /\ UNCHANGED execError
    /\ UNCHANGED <<planVars, schedVars>>
    /\ UNCHANGED <<checkVars, continue_on_error, scripts>>

\* execute_single_stage, several packages: the scheduler is built with
\* fail_fast = !continue_on_error and one task per package is prepared
ExecBeginBatch ==
    /\ execPc = "stages"
    /\ stageIdx <= Len(stages)
    /\ Cardinality(stages[stageIdx]) > 1
    /\ \E mc \in 1..MaxConcurrency : \E batch \in Orderings(stages[stageIdx]) :
          /\ config' = [max_concurrency |-> mc, timeout |-> FALSE,
                        fail_fast |-> ~continue_on_error,
                        progress_callback |-> FALSE,
                        task_completed_callback |-> FALSE]
          /\ tasks' = batch
          /\ pc' = [i \in 1..Len(batch) |-> "unspawned"]
          /\ result' = [i \in 1..Len(batch) |-> "none"]
          /\ progress_calls' = [i \in 1..Len(batch) |-> 0]
          /\ task_completed_calls' = [i \in 1..Len(batch) |-> 0]
          /\ permits' = mc
    /\ should_stop' = FALSE
    /\ completed_count' = 0
    /\ successful_count' = 0
    /\ failed_count' = 0
    /\ task_status' = <<>>
    /\ batchPc' = "idle"
    /\ joined' = 0
    /\ results' = <<>>
    /\ progress_log' = <<>>
    /\ stop_all_called' = FALSE
    /\ status' = [n \in Names |-> IF n \in stages[stageIdx] THEN "Pending" ELSE status[n]]
    /\ execPc' = "batch"
    /\ UNCHANGED planVars
    /\ UNCHANGED <<checkVars, continue_on_error, scripts, output, stageIdx, execError>>

\* the payload of a scheduled task, execute_task: task.start()
ExecPayloadStart ==
    /\ execPc = "batch"
    /\ \E i \in TaskIndices :
          /\ pc[i] = "running"
          /\ status[tasks[i]] = "Pending"
          /\ status' = [status EXCEPT ![tasks[i]] = task_start(tasks[i])]
    /\ UNCHANGED <<planVars, schedVars>>
    /\ UNCHANGED <<checkVars, continue_on_error, scripts, output, stageIdx, execPc, execError>>

\* the payload of a scheduled task returns Ok(()) for a skipped task
ExecPayloadSkipped ==
    /\ execPc = "batch"
    /\ \E i \in TaskIndices :
          /\ status[tasks[i]] = "Skipped"
          /\ FinishPayload(i, "Success")
    /\ UNCHANGED planVars
    /\ UNCHANGED <<execVars, checkVars>>

\* the payload of a scheduled task: run_command; Err for a launch error,
\* Ok(()) for any exit status of the child
ExecPayloadRun ==
    /\ execPc = "batch"
    /\ \E i \in TaskIndices : \E out \in ChildOutcomes :
          /\ status[tasks[i]] = "Running"
          /\ output' = [output EXCEPT ![tasks[i]] = out]
          /\ IF out = "spawn_error"
             THEN FinishPayload(i, "Failed") /\ UNCHANGED status
             ELSE /\ FinishPayload(i, "Success")
                  /\ status' = [status EXCEPT ![tasks[i]] = task_complete(out)]
    /\ UNCHANGED planVars
    /\ UNCHANGED <<checkVars, continue_on_error, scripts, stageIdx, execPc, execError>>

\* the entries of the returned list that count as failed tasks
failed_tasks == {k \in 1..Len(results) : results[k][2] \in {"Failed", "Timeout"}}

\* execute_single_stage after execute_batch returned: bail when a task
\* failed or timed out
ExecBatchFailed ==
    /\ execPc = "batch"
    /\ batchPc = "returned"
    /\ failed_tasks # {}
    /\ execPc' = "err"
    /\ execError' = "stage_failed"
    /\ UNCHANGED <<planVars, schedVars>>
    /\ UNCHANGED <<checkVars, continue_on_error, scripts, status, output, stageIdx>>

\* variant: the stage is left without waiting for execute_batch to return
ExecBatchOk_early ==
    /\ execPc = "batch"
    /\ batchPc \in {"joining", "returned"}
    /\ failed_tasks = {}
    /\ execPc' = "stages"
    /\ stageIdx' = stageIdx + 1
    /\ UNCHANGED <<planVars, schedVars>>
    /\ UNCHANGED <<checkVars, continue_on_error, scripts, status, output, execError>>

\* execute_single_stage after execute_batch returned: Ok(()), next stage
ExecBatchOk ==
    /\ execPc = "batch"
    /\ batchPc = "returned"
    /\ failed_tasks = {}
    /\ execPc' = "stages"
    /\ stageIdx' = stageIdx + 1
    /\ UNCHANGED <<planVars, schedVars>>
    /\ UNCHANGED <<checkVars, continue_on_error, scripts, status, output, execError>>

ExecNext ==
    \/ ExecAnalyzeSingle
    \/ ExecScriptMissing
    \/ ExecSingleStages
    \/ ExecAnalyze
    \/ ExecNoExecutable
    \/ ExecStages
    \/ ExecFinish
    \/ ExecBeginSingle
    \/ ExecSingleStart
    \/ ExecSingleRun
    \/ ExecBeginBatch
    \/ SchedBegin
    \/ SchedCheckStop
    \/ SchedAcquire
    \/ ExecPayloadStart
    \/ ExecPayloadSkipped
    \/ ExecPayloadRun
    \/ SchedCountCompleted
    \/ SchedCountOutcome
    \/ SchedReport
    \/ SchedReturnTask
    \/ SchedJoin
    \/ SchedReturnBatch
    \/ ExecBatchFailed
    \/ ExecBatchOk

SpecExec == ExecInit /\ [][ExecNext]_vars

\* the task of package n has begun: task.start() was called on it
Began(n) == status[n] \notin {"NoTask", "Pending"}

\* the child process of the task of package n was started (or its launch tried)
ChildStarted(n) == status[n] \in {"Running", "Success", "Failed"}

\* the task of package n has reached a terminal state
Terminal(n) == status[n] \in {"Success", "Failed", "Skipped"}

\* the script of package n failed: its child process exited unsuccessfully
\* or could not be launched
ScriptFailed(n) == output[n] \in {"exit_failure", "spawn_error"}

(***************************************************************************)
(* C5: in a stage-by-stage run no task of stage k+1 begins before every    *)
(* task of stage k has reached a terminal state, on the single-package     *)
(* path and on the concurrent path.                                        *)
(***************************************************************************)
C5_StagesRunInOrder ==
    \A k \in 1..(Len(stages) - 1) : \A p \in stages[k + 1] :
        Began(p) => \A q \in stages[k] : Terminal(q)

\* a concurrent stage is over and the single package of the next stage runs
C5_Witness ==
    /\ Len(stages) = 2
    /\ Cardinality(stages[1]) = 2
    /\ \A q \in stages[1] : status[q] \in {"Success", "Failed"}
    /\ \E p \in stages[2] : status[p] = "Running"

(***************************************************************************)
(* C9: when the workspace graph contains a cycle, running a script across  *)
(* the workspace starts no task and aborts with an error (CycleDetected):  *)
(* it never ends with Ok.                                                  *)
(***************************************************************************)
C9_CycleAbortsRun ==
    (target = "none" /\ NontrivialSCCs(packages) # {}) =>
        /\ \A n \in Names : status[n] = "NoTask"
        /\ execPc # "ok"

(***************************************************************************)
(* C10: with continue-on-failure = false, once a task of a stage has       *)
(* failed (its child exited unsuccessfully or could not be launched), no   *)
(* task of a later stage is started.                                       *)
(***************************************************************************)
C10_FailureStopsLaterStages ==
    ~continue_on_error =>
        \A k \in 1..Len(stages) : \A q \in stages[k] :
            ScriptFailed(q) =>
                \A j \in (k + 1)..Len(stages) : \A p \in stages[j] : ~ChildStarted(p)

(***************************************************************************)
(* C11: with continue-on-failure = true a failed task in stage k does not  *)
(* stop the run: when the run is over, the tasks of stage k+1 and of every *)
(* later stage have been started.                                          *)
(***************************************************************************)
C11_FailureDoesNotStopRun ==
    (continue_on_error /\ execPc \in {"ok", "err"}) =>
        \A k \in 1..Len(stages) : \A q \in stages[k] :
            ScriptFailed(q) =>
                \A j \in (k + 1)..Len(stages) : \A p \in stages[j] : Began(p)

(***************************************************************************)
(* C12: a run-script flow ends with success if and only if no fatal error  *)
(* was raised and no task reached Failed; a run in which the script of     *)
(* some package exits with a non-zero status does not end with success.    *)
(***************************************************************************)
C12_SuccessIffNoFailure ==
    execPc \in {"ok", "err"} =>
        (execPc = "ok" <=>
            /\ execError = "none"
            /\ \A n \in Names : status[n] # "Failed" /\ ~ScriptFailed(n))

\* the ids of the batch are pairwise different
UniqueIds == \A i, j \in TaskIndices : tasks[i] = tasks[j] => i = j

\* the task has a terminal result: Success, Failed, Timeout or Cancelled
HasResult(i) == pc[i] = "done"

(***************************************************************************)
(* C13: for every task of a batch, tasks that end Cancelled included,      *)
(* progress_callback and task_completed_callback are each invoked exactly  *)
(* once, when the task reaches its terminal state: never twice, and once   *)
(* for every task that has returned its result.                            *)
(***************************************************************************)
C13_CallbacksOncePerTask ==
    \A i \in TaskIndices :
        /\ progress_calls[i] <= 1
        /\ task_completed_calls[i] <= 1
        /\ HasResult(i) => (progress_calls[i] = 1 /\ task_completed_calls[i] = 1)

(***************************************************************************)
(* C14: in every invocation progress_callback(completed, total), total is  *)
(* the number of tasks submitted in the batch (stated for batches with     *)
(* pairwise different ids), also when max_concurrency is smaller than the  *)
(* batch.                                                                  *)
(***************************************************************************)
C14_TotalIsBatchSize ==
    UniqueIds =>
        \A k \in 1..Len(progress_log) : progress_log[k][2] = Len(tasks)

(***************************************************************************)
(* C15: for every interleaving the completed values passed to              *)
(* progress_callback are strictly increasing, and when the batch has       *)
(* returned with every task run to a result the last value is the number   *)
(* of tasks of the batch (stated for batches with pairwise different ids). *)
(***************************************************************************)
C15_CompletedStrictlyIncreasing ==
    UniqueIds =>
        /\ \A k \in 1..(Len(progress_log) - 1) :
              progress_log[k][1] < progress_log[k + 1][1]
        /\ (/\ batchPc = "returned"
            /\ tasks # <<>>
            /\ \A i \in TaskIndices : result[i] \in RunOutcomes(config))
             => progress_log[Len(progress_log)][1] = Len(tasks)

(***************************************************************************)
(* C17: during one execute_batch the three counters never decrease, and    *)
(* when the batch returns completed_count is the number of tasks with a    *)
(* terminal result (Cancelled included) and equals successful_count +      *)
(* failed_count.                                                           *)
(***************************************************************************)
C17_CountersConsistent ==
    [][/\ batchPc = "joining" =>
            /\ completed_count' >= completed_count
            /\ successful_count' >= successful_count
            /\ failed_count' >= failed_count
       /\ batchPc' = "returned" =>
            /\ completed_count' = Cardinality({i \in TaskIndices : HasResult(i)'})
            /\ completed_count' = successful_count' + failed_count']_vars

\* how far a spawned task is along execute_task
Progressed(p) ==
    CASE p = "unspawned" -> 0
      [] p = "spawned"   -> 1
      [] p = "waiting"   -> 2
      [] p = "running"   -> 3
      [] p = "completed" -> 4
      [] p = "counted"   -> 5
      [] p = "tallied"   -> 6
      [] p = "reported"  -> 7
      [] OTHER           -> 8

\* the task-status entry of a task id is there and marked completed
EntryCompleted(id) == id \in DOMAIN task_status /\ task_status[id].is_completed

(***************************************************************************)
(* C16: with unique task ids in a batch a task never goes back along       *)
(* submitted -> running -> terminal; its status entry is created when the  *)
(* task starts running and at no other time, is never removed, changes     *)
(* only by being marked completed, and is never changed once completed.    *)
(***************************************************************************)
C16_TransitionsOnce ==
    [][UniqueIds =>
        \A i \in TaskIndices :
            /\ Progressed(pc'[i]) >= Progressed(pc[i])
            /\ tasks[i] \notin DOMAIN task_status =>
                  (tasks[i] \in DOMAIN task_status' <=>
                      (pc[i] = "waiting" /\ pc'[i] = "running"))
            /\ tasks[i] \in DOMAIN task_status =>
                  /\ tasks[i] \in DOMAIN task_status'
                  /\ task_status'[tasks[i]] # task_status[tasks[i]] =>
                        /\ ~task_status[tasks[i]].is_completed
                        /\ task_status'[tasks[i]].is_completed
                        /\ pc[i] = "running"]_vars

\* one task has returned with its entry completed while a peer is running
\* with its entry not yet completed
C16_Witness ==
    /\ UniqueIds
    /\ \E i, j \in TaskIndices :
          /\ pc[i] = "done" /\ EntryCompleted(tasks[i])
          /\ pc[j] = "running"
          /\ tasks[j] \in DOMAIN task_status /\ ~EntryCompleted(tasks[j])

(***************************************************************************)
(* C18: with fail_fast = false and no call to stop_all, a failure or a     *)
(* timeout never cancels a peer: no task gets the result Cancelled, no     *)
(* entry of the returned list is Cancelled, and when the batch returns     *)
(* every task of it has run.                                               *)
(***************************************************************************)
C18_NoCancelWithoutFailFast ==
    (~config.fail_fast /\ ~stop_all_called) =>
        /\ \A i \in TaskIndices : result[i] # "Cancelled"
        /\ \A k \in 1..Len(results) : results[k][2] # "Cancelled"
        /\ batchPc = "returned" =>
              \A i \in TaskIndices :
                  \/ pc[i] = "done" /\ result[i] \in RunOutcomes(config)
                  \/ pc[i] = "panicked"

\* without fail_fast a batch has returned in which the first task failed or
\* timed out and a peer ran to Success
C18_Witness ==
    /\ ~config.fail_fast
    /\ ~stop_all_called
    /\ batchPc = "returned"
    /\ Len(results) >= 2
    /\ results[1][2] \in {"Failed", "Timeout"}
    /\ \E k \in 2..Len(results) : results[k][2] = "Success"

\* tasks whose outcome has been added to successful_count or failed_count
Tallied(i) == pc[i] \in {"tallied", "reported", "done"} /\ result[i] \in RunOutcomes(config)

(***************************************************************************)
(* C19: a Timeout result arises only when a timeout is configured, and it  *)
(* is treated as a non-success like Failed: failed_count counts the Failed *)
(* and the Timeout results (successful_count only the Success ones), a     *)
(* task that has returned Timeout holds no permit any more, and with       *)
(* fail_fast = true the stop flag is set once it has returned.             *)
(***************************************************************************)
C19_TimeoutIsNonSuccess ==
    batchPc \in {"joining", "returned"} =>
        /\ failed_count =
              Cardinality({i \in TaskIndices :
                              Tallied(i) /\ result[i] \in {"Failed", "Timeout"}})
        /\ successful_count =
              Cardinality({i \in TaskIndices : Tallied(i) /\ result[i] = "Success"})
        /\ \A i \in TaskIndices :
              result[i] = "Timeout" =>
                  /\ config.timeout
                  /\ pc[i] = "done" =>
                        /\ permits + Cardinality({j \in TaskIndices \ {i} : HoldsPermit(j)})
                              = config.max_concurrency
                        /\ config.fail_fast => should_stop

\* with fail_fast a task has returned Timeout: it is counted as failed, all
\* permits are free again and the stop flag is set
C19_Witness ==
    /\ config.fail_fast
    /\ ~stop_all_called
    /\ should_stop
    /\ \E i \in TaskIndices : pc[i] = "done" /\ result[i] = "Timeout"
    /\ \A i \in TaskIndices : result[i] \in {"none", "Timeout", "Cancelled"}
    /\ failed_count >= 1
    /\ permits = config.max_concurrency

(***************************************************************************)
(* C20: after stop_all has been called no task of the batch that is not    *)
(* yet running starts running; tasks already in flight go on and keep      *)
(* their own result.                                                       *)
(***************************************************************************)
C20_NoStartAfterStopAll ==
    [][(batchPc = "joining" /\ stop_all_called) =>
          \A i \in TaskIndices :
              /\ pc[i] # "running" => pc'[i] # "running"
              /\ result[i] # "none" => result'[i] = result[i]]_vars

\* the stages for which execute_single_stage has built its tasks
StagesEntered ==
    {k \in 1..Len(stages) :
        \/ k < stageIdx
        \/ k = stageIdx /\ execPc \in {"single", "batch"}}

(***************************************************************************)
(* C21: in a cross-workspace run the tasks submitted for a stage are       *)
(* exactly its packages whose script map contains the script: a package    *)
(* lacking the script contributes no task, starts no child process and is  *)
(* never a failure.                                                        *)
(***************************************************************************)
C21_TasksOnlyForScriptedPackages ==
    target = "none" =>
      \A n \in Names \ scripts :
        /\ status[n] = "NoTask"
        /\ output[n] = "none"

(***************************************************************************)
(* C21, amended: one task is built for every package of every stage        *)
(* entered, with or without the script, and on the concurrent path all of  *)
(* them are submitted; the task of a package lacking the script starts no  *)
(* child process, is never Running or Failed, and its scheduler result is  *)
(* never Failed.                                                           *)
(***************************************************************************)
C21_UnscriptedTaskIsSkipped ==
    target = "none" =>
      /\ \A k \in StagesEntered : \A p \in stages[k] : status[p] # "NoTask"
      /\ execPc = "batch" => {tasks[i] : i \in TaskIndices} = stages[stageIdx]
      /\ \A n \in Names \ scripts :
            /\ output[n] = "none"
            /\ status[n] \in {"NoTask", "Pending", "Skipped"}
            /\ execPc = "batch" =>
                  \A i \in TaskIndices :
                      tasks[i] = n => result[i] \in {"none", "Success", "Cancelled"}

\* a concurrent stage in which a package without the script was skipped, with
\* Success as its scheduler result, next to a package whose script ran
C21_Witness ==
    /\ target = "none"
    /\ execPc = "batch"
    /\ batchPc = "returned"
    /\ \E i, j \in TaskIndices :
          /\ tasks[i] \notin scripts
          /\ status[tasks[i]] = "Skipped"
          /\ result[i] = "Success"
          /\ tasks[j] \in scripts
          /\ status[tasks[j]] = "Success"

\* the transitive closure of the workspace dependencies of T, T included:
\* the packages from which T is reached in the workspace graph
DependencyClosure(pkgs, T) ==
    LET g == WorkspaceGraph(pkgs)
    IN {n \in g.nodes : T \in ReachFrom(g, {n})}

\* a stage list restricted to the set C: every stage cut down to C, and the
\* stages left empty dropped
RECURSIVE RestrictStages(_, _)
RestrictStages(ss, C) ==
    IF ss = <<>> THEN <<>>
    ELSE (IF Head(ss) \cap C = {} THEN <<>> ELSE <<Head(ss) \cap C>>)
            \o RestrictStages(Tail(ss), C)

(***************************************************************************)
(* C23: for an acyclic workspace and any target package T, the stage list  *)
(* of the single-package analysis is the stage list of the whole workspace *)
(* restricted to the transitive closure of the workspace dependencies of T *)
(* (T included): same packages, same order, nothing outside the closure.   *)
(***************************************************************************)
C23_SingleStagesAreRestriction ==
    (planPc = "analyzed_single" /\ NontrivialSCCs(packages) = {}) =>
        stages = RestrictStages(analyze(packages).stages,
                                DependencyClosure(packages, target))

(***************************************************************************)
(* C24: when the target package belongs to a strongly connected component  *)
(* of size >= 2 of the workspace graph, the single-package analysis        *)
(* returns an empty stage list.                                            *)
(***************************************************************************)
C24_TargetOnCycleNoStages ==
    (/\ planPc = "analyzed_single"
     /\ \E scc \in NontrivialSCCs(packages) : target \in scc) =>
        stages = <<>>

\* the target is on a two-package cycle and also depends on a package that
\* is on no cycle; the analysis returned no stage
C24_Witness ==
    /\ planPc = "analyzed_single"
    /\ \E scc \in NontrivialSCCs(packages) :
          /\ target \in scc
          /\ DependencyClosure(packages, target) \ scc # {}
    /\ stages = <<>>

(***************************************************************************)
(* C22: a single-package run whose target package lacks the requested      *)
(* script fails with the script-missing error before any task of any       *)
(* stage, those of the target's dependencies included, is started: no      *)
(* task is ever built, the run never reaches the stages nor ends with Ok,  *)
(* and the error it ends with is script_not_found.                         *)
(***************************************************************************)
C22_ScriptMissingBeforeAnyTask ==
    (/\ target \in PackageNames(packages)
     /\ target \notin scripts) =>
        /\ \A n \in Names : status[n] = "NoTask" /\ output[n] = "none"
        /\ execPc \in {"start", "check_script", "err"}
        /\ execPc = "err" => execError = "script_not_found"

\* the run has failed with script_not_found although a workspace dependency
\* of the target has the script
C22_Witness ==
    /\ target \in PackageNames(packages)
    /\ execPc = "err"
    /\ execError = "script_not_found"
    /\ (DependencyClosure(packages, target) \ {target}) \cap scripts # {}
    /\ \A n \in Names : status[n] = "NoTask"

(***************************************************************************)
(* src/core/checker.rs: helpers                                            *)
(*                                                                         *)
(* A version spec is a sequence of symbols.  The operator characters are   *)
(* one symbol each (">=" is ">" followed by "="); the prefixes and markers *)
(* that should_skip_dependency looks for as whole words are one symbol     *)
(* each; "1" and "2" stand for bare versions.                              *)
(***************************************************************************)
\* longest version spec handed to the helpers
MaxSpecLen == 3

OperatorChars == {"^", "~", ">", "<", "="}

LocalMarkers == {"workspace:", "file:", "link:", "git+", "github:"}

SpecSymbols == OperatorChars \cup LocalMarkers \cup {"1"}

SpecStrings == UNION {[1..n -> SpecSymbols] : n \in 0..MaxSpecLen}

\* str::starts_with
starts_with(s, pat) == Len(pat) <= Len(s) /\ SubSeq(s, 1, Len(pat)) = pat

\* str::contains, for a pattern of one symbol
contains(s, sym) == \E i \in 1..Len(s) : s[i] = sym

\* str::trim_start_matches: the prefix is removed as often as it matches
RECURSIVE trim_start_matches(_, _)
trim_start_matches(s, pat) ==
    IF starts_with(s, pat)
    THEN trim_start_matches(SubSeq(s, Len(pat) + 1, Len(s)), pat)
    ELSE s

should_skip_dependency_no_github(version_spec_) ==
    \/ starts_with(version_spec_, <<"workspace:">>)
    \/ starts_with(version_spec_, <<"file:">>)
    \/ starts_with(version_spec_, <<"link:">>)
    \/ contains(version_spec_, "git+")

should_skip_dependency(version_spec_) ==
    \/ starts_with(version_spec_, <<"workspace:">>)
    \/ starts_with(version_spec_, <<"file:">>)
    \/ starts_with(version_spec_, <<"link:">>)
    \/ contains(version_spec_, "git+")
    \/ contains(version_spec_, "github:")

extract_version_from_spec_no_caret(version_spec_) ==
    trim_start_matches(
     trim_start_matches(
      trim_start_matches(
       trim_start_matches(
        trim_start_matches(
         trim_start_matches(version_spec_, <<"~">>),
         <<">", "=">>),
        <<"<", "=">>),
       <<">">>),
      <<"<">>),
     <<"=">>)

extract_version_from_spec(version_spec_) ==
    trim_start_matches(
     trim_start_matches(
      trim_start_matches(
       trim_start_matches(
        trim_start_matches(
         trim_start_matches(
          trim_start_matches(version_spec_, <<"^">>),
          <<"~">>),
         <<">", "=">>),
        <<"<", "=">>),
       <<">">>),
      <<"<">>),
     <<"=">>)

is_version_satisfied(current, latest) == current = latest

\* the helpers are handed a version spec
VersionInit ==
    /\ PlanInit
    /\ SchedIdle
    /\ ExecIdle
    /\ CliIdle
    /\ version_spec \in SpecStrings
    /\ version = <<>>
    /\ skip = FALSE
    /\ dependency_count = 0
    /\ cpu_count = 1
    /\ thread_count = 0
    /\ PipelineIdle
    /\ checkPc = "spec"

ExtractVersion ==
    /\ checkPc \in {"spec", "skip_known"}
    /\ version' = extract_version_from_spec(version_spec)
    /\ checkPc' = IF checkPc = "spec" THEN "extracted" ELSE "both"
    /\ UNCHANGED <<version_spec, skip, dependency_count, cpu_count, thread_count,
                   pipelineVars>>
    /\ UNCHANGED <<planVars, schedVars, execVars, workspace_files, cliVars>>

ShouldSkip ==
    /\ checkPc \in {"spec", "extracted"}
    /\ skip' = should_skip_dependency(version_spec)
    /\ checkPc' = IF checkPc = "spec" THEN "skip_known" ELSE "both"
    /\ UNCHANGED <<version_spec, version, dependency_count, cpu_count,
                   thread_count, pipelineVars>>
    /\ UNCHANGED <<planVars, schedVars, execVars, workspace_files, cliVars>>

VersionNext == ExtractVersion \/ ShouldSkip

SpecVersion == VersionInit /\ [][VersionNext]_vars

\* largest dependency count and host parallelism handed to the heuristic
MaxDependencyCount == 208

MaxCpuCount == 12

Min(a, b) == IF a <= b THEN a ELSE b

Max(a, b) == IF a >= b THEN a ELSE b

calculate_optimal_thread_count_cpu(dependency_count_, cpu_count_) ==
    Max(1, cpu_count_)

calculate_optimal_thread_count(dependency_count_, cpu_count_) ==
    LET optimal_threads ==
            IF dependency_count_ <= 10 THEN Min(dependency_count_, 2)
            ELSE IF dependency_count_ <= 50
                 THEN Min(dependency_count_ \div 2, cpu_count_)
            ELSE IF dependency_count_ <= 200
                 THEN Min(dependency_count_ \div 4, cpu_count_ * 2)
            ELSE Min(dependency_count_ \div 8, cpu_count_ * 3)
    IN  Max(1, Min(optimal_threads, dependency_count_))

ThreadsInit ==
    /\ PlanInit
    /\ SchedIdle
    /\ ExecIdle
    /\ CliIdle
    /\ version_spec = <<>>
    /\ version = <<>>
    /\ skip = FALSE
    /\ dependency_count \in 0..MaxDependencyCount
    /\ cpu_count \in 1..MaxCpuCount
    /\ thread_count = 0
    /\ PipelineIdle
    /\ checkPc = "count"

CalculateThreads ==
    /\ checkPc = "count"
    /\ thread_count' = calculate_optimal_thread_count(dependency_count, cpu_count)
    /\ checkPc' = "threads"
    /\ UNCHANGED <<version_spec, version, skip, dependency_count, cpu_count,
                   pipelineVars>>
    /\ UNCHANGED <<planVars, schedVars, execVars, workspace_files, cliVars>>

ThreadsNext == CalculateThreads

SpecThreads == ThreadsInit /\ [][ThreadsNext]_vars

\* a version spec that begins with no operator character
IsBare(s) == s = <<>> \/ Head(s) \notin OperatorChars

Operators == {<<"^">>, <<"~">>, <<">", "=">>, <<"<", "=">>, <<">">>, <<"<">>, <<"=">>}

\* the operators a spec begins with
LeadingOperators(s) == {op \in Operators : starts_with(s, op)}

\* the longest operator a spec begins with
LongestOperator(s) ==
    CHOOSE op \in LeadingOperators(s) :
        \A o \in LeadingOperators(s) : Len(o) <= Len(op)

\* the spec without the longest operator it begins with
StripOneOperator(s) ==
    IF LeadingOperators(s) = {} THEN s
    ELSE SubSeq(s, Len(LongestOperator(s)) + 1, Len(s))

PiecewiseThreads(n, C) ==
    CASE n <= 10 -> Min(n, 2)
      [] n >= 11 /\ n <= 50 -> Min(n \div 2, C)
      [] n >= 51 /\ n <= 200 -> Min(n \div 4, 2 * C)
      [] n > 200 -> Min(n \div 8, 3 * C)

Clamp(x, lo, hi) == IF x < lo THEN lo ELSE IF x > hi THEN hi ELSE x

\* C30: for n >= 1 tasks and host parallelism C >= 1 the thread count is the
\* piecewise value clamped to [1, n], hence between 1 and n.
C30_ThreadCountIsClampedPiecewise ==
    (checkPc = "threads" /\ dependency_count >= 1 /\ cpu_count >= 1) =>
        /\ thread_count = Clamp(PiecewiseThreads(dependency_count, cpu_count),
                                1, dependency_count)
        /\ 1 <= thread_count
        /\ thread_count <= dependency_count

C30_Witness ==
    /\ checkPc = "threads"
    /\ dependency_count = 204
    /\ cpu_count = 2
    /\ thread_count = 6

(***************************************************************************)
(* src/core/checker.rs: the package files and what is collected from them  *)
(***************************************************************************)
\* largest number of dependency entries in the package files of a scan
MaxUsages == 2

DEP_TYPES == <<"dependencies", "devDependencies", "peerDependencies">>

\* the dependency types that occur in the package files of the scans
ScannedDepTypes == {"dependencies", "devDependencies"}

\* the dependency names of the scans, in the key order of the maps
DepNameOrder == <<"x", "y">>

DepNames == Range(DepNameOrder)

\* the names of the package files, in scan order
CheckPackageNames == <<"a", "b">>

\* the bytes of the symbols, in increasing order
SymbolOrder == <<"1", "2", "<", "=", ">", "^", "file:", "git+", "github:",
                 "link:", "workspace:", "~">>

SymbolRank(sym) == CHOOSE k \in 1..Len(SymbolOrder) : SymbolOrder[k] = sym

\* Ord for String: the first symbol that differs decides, a proper prefix
\* is smaller
StrLess(s, t) ==
    \E k \in 1..(Min(Len(s), Len(t)) + 1) :
        /\ \A j \in 1..(k - 1) : s[j] = t[j]
        /\ \/ k > Len(s) /\ k <= Len(t)
           \/ /\ k <= Len(s)
              /\ k <= Len(t)
              /\ SymbolRank(s[k]) < SymbolRank(t[k])

\* the entries of one package file: <<dep_type, dep_name>> -> version spec
ManifestSlots == ScannedDepTypes \X DepNames

DepObjects(specs, k) ==
    UNION {[S -> specs] : S \in {T \in SUBSET ManifestSlots : Cardinality(T) = k}}

\* what collect_package_files and parse_package_json give: no file, one file
\* or two, with at most n dependency entries in all
ScanOutputs(specs, n) ==
    {<<>>}
    \cup UNION {{<<[name |-> CheckPackageNames[1], deps |-> f]>> :
                    f \in DepObjects(specs, i)} : i \in 0..n}
    \cup UNION {UNION {{<<[name |-> CheckPackageNames[1], deps |-> f],
                          [name |-> CheckPackageNames[2], deps |-> g]>> :
                          f \in DepObjects(specs, i), g \in DepObjects(specs, j)} :
                       j \in 0..(n - i)} : i \in 0..n}

\* the order in which the loops over DEP_TYPES and over the keys of each
\* object visit the entries of a package file
SlotOrder ==
    [i \in 1..(Len(DEP_TYPES) * Len(DepNameOrder)) |->
        <<DEP_TYPES[((i - 1) \div Len(DepNameOrder)) + 1],
          DepNameOrder[((i - 1) % Len(DepNameOrder)) + 1]>>]

PackageEntries(package_json) ==
    SelectSeq(SlotOrder, LAMBDA sl : sl \in DOMAIN package_json.deps)

\* BTreeMap::entry(..).and_modify(push).or_insert_with(..): the spec of the
\* first usage is kept, later usages only extend used_by
add_or_update_dependency_last_spec(map, dep_name, version_spec_, package_name, dep_type) ==
    [n \in (DOMAIN map) \cup {dep_name} |->
        IF n # dep_name THEN map[n]
        ELSE [name |-> dep_name,
              version_spec |-> version_spec_,
              used_by |-> IF dep_name \in DOMAIN map
                          THEN Append(map[dep_name].used_by, <<package_name, dep_type>>)
                          ELSE <<<<package_name, dep_type>>>>]]

add_or_update_dependency(map, dep_name, version_spec_, package_name, dep_type) ==
    IF dep_name \in DOMAIN map
    THEN [map EXCEPT ![dep_name].used_by = Append(@, <<package_name, dep_type>>)]
    ELSE [n \in (DOMAIN map) \cup {dep_name} |->
            IF n = dep_name
            THEN [name |-> dep_name,
                  version_spec |-> version_spec_,
                  used_by |-> <<<<package_name, dep_type>>>>]
            ELSE map[n]]

\* process_package_dependencies, from entry k of the package file on
RECURSIVE process_package_dependencies(_, _, _)
process_package_dependencies(package_json, k, map) ==
    LET entries == PackageEntries(package_json)
    IN  IF k > Len(entries) THEN map
        ELSE LET version_spec_ == package_json.deps[entries[k]]
             IN  process_package_dependencies(
                    package_json, k + 1,
                    IF should_skip_dependency(version_spec_) THEN map
                    ELSE add_or_update_dependency(map, entries[k][2], version_spec_,
                                                  package_json.name, entries[k][1]))

\* collect_unique_dependencies, from package file i on
RECURSIVE collect_unique_dependencies(_, _, _)
collect_unique_dependencies(files, i, map) ==
    IF i > Len(files) THEN map
    ELSE collect_unique_dependencies(
            files, i + 1, process_package_dependencies(files[i], 1, map))

\* collect_dependency_usages, from entry k of the package file on
RECURSIVE collect_dependency_usages(_, _, _)
collect_dependency_usages(package_json, k, map) ==
    LET entries == PackageEntries(package_json)
    IN  IF k > Len(entries) THEN map
        ELSE LET version_spec_ == package_json.deps[entries[k]]
                 dep_name == entries[k][2]
                 usage == [package |-> package_json.name,
                           version_spec |-> version_spec_,
                           resolved_version |-> extract_version_from_spec(version_spec_),
                           dep_type |-> entries[k][1]]
             IN  collect_dependency_usages(
                    package_json, k + 1,
                    IF should_skip_dependency(version_spec_) THEN map
                    ELSE [n \in (DOMAIN map) \cup {dep_name} |->
                            IF n # dep_name THEN map[n]
                            ELSE IF n \in DOMAIN map THEN Append(map[n], usage)
                            ELSE <<usage>>])

\* collect_version_conflicts: the loop over the package files
RECURSIVE collect_all_usages(_, _, _)
collect_all_usages(files, i, map) ==
    IF i > Len(files) THEN map
    ELSE collect_all_usages(files, i + 1, collect_dependency_usages(files[i], 1, map))

\* the keys of the HashMap that group_by_version builds
group_by_version(usages) == {usages[i].resolved_version : i \in 1..Len(usages)}

\* versions.sort(); versions.dedup(): the distinct versions in increasing order
sort_dedup(S) ==
    CHOOSE q \in [1..Cardinality(S) -> S] :
        \A i, j \in 1..Cardinality(S) : i < j => StrLess(q[i], q[j])

calculate_recommended_version(usages) ==
    LET versions == sort_dedup(group_by_version(usages))
    IN  IF versions = <<>> THEN <<"unknown">> ELSE versions[Len(versions)]

\* the names of a map, in key order
KeysInOrder(map) == SelectSeq(DepNameOrder, LAMBDA n : n \in DOMAIN map)

find_version_conflicts(dependency_usages) ==
    LET conflicting ==
            SelectSeq(KeysInOrder(dependency_usages),
                      LAMBDA n : /\ ~(Len(dependency_usages[n]) < 2)
                                 /\ Cardinality(group_by_version(dependency_usages[n])) > 1)
    IN  [k \in 1..Len(conflicting) |->
            [name |-> conflicting[k],
             conflicts |-> dependency_usages[conflicting[k]],
             recommended_version |->
                 calculate_recommended_version(dependency_usages[conflicting[k]])]]

\* the version specs of the scans that are checked for conflicts
ConflictSpecs ==
    {<<"^", "1">>, <<"1">>, <<"2">>, <<"1", "2">>,
     <<"workspace:", "1">>, <<"1", "github:">>}

ConflictsInit ==
    /\ PlanInit
    /\ SchedIdle
    /\ ExecIdle
    /\ CliIdle
    /\ HelperIdle
    /\ cpu_count = 1
    /\ package_files \in ScanOutputs(ConflictSpecs, MaxUsages)
    /\ unique_dependencies = <<>>
    /\ registry = <<>>
    /\ outdated_deps = <<>>
    /\ found_packages = {}
    /\ total_deps = 0
    /\ conflicts = <<>>
    /\ payloadPc = <<>>
    /\ checkPc = "start"

\* check_version_conflicts
CheckVersionConflicts ==
    /\ checkPc = "start"
    /\ conflicts' = IF package_files = <<>> THEN <<>>
                    ELSE find_version_conflicts(collect_all_usages(package_files, 1, <<>>))
    /\ checkPc' = "conflicts"
    /\ UNCHANGED <<helperVars, cpu_count, package_files, unique_dependencies,
                   registry, outdated_deps, found_packages, total_deps, payloadPc>>
    /\ UNCHANGED <<planVars, schedVars, execVars, workspace_files, cliVars>>

ConflictsNext == CheckVersionConflicts

SpecConflicts == ConflictsInit /\ [][ConflictsNext]_vars

\* a version spec of a locally-resolving kind
IsLocallyResolving(s) ==
    \/ s # <<>> /\ Head(s) \in {"workspace:", "file:", "link:"}
    \/ \E i \in 1..Len(s) : s[i] \in {"git+", "github:"}

\* the usages of dependency d in the package files that are not skipped:
\* <<index of the package file, dep_type>>
NonSkippedUsages(d) ==
    {u \in (1..Len(package_files)) \X Range(DEP_TYPES) :
        /\ <<u[2], d>> \in DOMAIN package_files[u[1]].deps
        /\ ~IsLocallyResolving(package_files[u[1]].deps[<<u[2], d>>])}

UsingPackages(d) == {package_files[u[1]].name : u \in NonSkippedUsages(d)}

ResolvedVersions(d) ==
    {extract_version_from_spec(package_files[u[1]].deps[<<u[2], d>>]) :
        u \in NonSkippedUsages(d)}

\* the largest of a set of strings
LexMax(S) == CHOOSE v \in S : \A w \in S : w = v \/ StrLess(w, v)

ConflictsFor(d) == {k \in 1..Len(conflicts) : conflicts[k].name = d}

\* C28: one VersionConflict is emitted for a dependency name when it is used
\* by at least 2 distinct packages and its non-skipped usages have at least
\* 2 distinct resolved versions, and none otherwise; the recommended version
\* is the lexicographic maximum of the resolved versions.
C28_ConflictIffTwoPackagesTwoVersions ==
    checkPc = "conflicts" =>
        \A d \in DepNames :
            /\ Cardinality(ConflictsFor(d)) =
                  IF /\ Cardinality(UsingPackages(d)) >= 2
                     /\ Cardinality(ResolvedVersions(d)) >= 2
                  THEN 1 ELSE 0
            /\ \A k \in ConflictsFor(d) :
                  conflicts[k].recommended_version = LexMax(ResolvedVersions(d))

(***************************************************************************)
(* src/core/checker.rs: check_outdated_dependencies                        *)
(*                                                                         *)
(* One lookup task per deduplicated dependency name runs on the scheduler  *)
(* of src/core/scheduler.rs (timeout of 30 s, fail_fast off, the results   *)
(* of the batch are dropped).  A lookup ends with Some(latest), with None  *)
(* (npm exits with a failure or prints nothing), with Err (npm cannot be   *)
(* launched) or not within the timeout.  After the lookup the task has no  *)
(* await left: it either returns or pushes its records and returns, each   *)
(* push under its own lock of the shared Vec.                              *)
(***************************************************************************)
\* the version specs of the scans that are checked for outdated dependencies
OutdatedSpecs == {<<"^", "1">>, <<"2">>, <<"workspace:", "1">>, <<"1", "github:">>}

LatestVersions == {<<"2">>}

LookupOutcomes ==
    {[kind |-> "Some", version |-> v] : v \in LatestVersions}
    \cup {[kind |-> k, version |-> <<>>] : k \in {"None", "Err", "Elapsed"}}

CheckInit ==
    /\ PlanInit
    /\ SchedIdle
    /\ ExecIdle
    /\ CliIdle
    /\ HelperIdle
    /\ cpu_count = 1
    /\ package_files \in ScanOutputs(OutdatedSpecs, MaxUsages)
    /\ unique_dependencies = <<>>
    /\ registry = <<>>
    /\ outdated_deps = <<>>
    /\ found_packages = {}
    /\ total_deps = 0
    /\ conflicts = <<>>
    /\ payloadPc = <<>>
    /\ checkPc = "start"

\* check_outdated_dependencies_with_progress up to execute_batch: the package
\* files are collected and the dependencies deduplicated; with none of either
\* it returns (empty, 0), else check_outdated_with_scheduler builds the
\* scheduler and one task per dependency name, in key order
CheckCollect ==
    /\ checkPc = "start"
    /\ LET deps == IF package_files = <<>> THEN <<>>
                   ELSE collect_unique_dependencies(package_files, 1, <<>>)
           batch == KeysInOrder(deps)
       IN  /\ unique_dependencies' = deps
           /\ IF batch = <<>>
              THEN /\ total_deps' = 0
                   /\ checkPc' = "returned"
                   /\ UNCHANGED <<schedVars, payloadPc>>
              ELSE /\ total_deps' = Len(batch)
                   /\ checkPc' = "batch"
                   /\ payloadPc' = [d \in DOMAIN deps |-> 0]
                   /\ config' = [max_concurrency |->
                                     calculate_optimal_thread_count(Len(batch), cpu_count),
                                 timeout |-> TRUE,
                                 fail_fast |-> FALSE,
                                 progress_callback |-> FALSE,
                                 task_completed_callback |-> FALSE]
                   /\ tasks' = batch
                   /\ pc' = [i \in 1..Len(batch) |-> "unspawned"]
                   /\ result' = [i \in 1..Len(batch) |-> "none"]
                   /\ progress_calls' = [i \in 1..Len(batch) |-> 0]
                   /\ task_completed_calls' = [i \in 1..Len(batch) |-> 0]
                   /\ permits' = calculate_optimal_thread_count(Len(batch), cpu_count)
                   /\ should_stop' = FALSE
                   /\ completed_count' = 0
                   /\ successful_count' = 0
                   /\ failed_count' = 0
                   /\ task_status' = <<>>
                   /\ batchPc' = "idle"
                   /\ joined' = 0
                   /\ results' = <<>>
                   /\ progress_log' = <<>>
                   /\ stop_all_called' = FALSE
    /\ UNCHANGED <<helperVars, cpu_count, package_files, registry, outdated_deps,
                   found_packages, conflicts>>
    /\ UNCHANGED <<planVars, execVars, workspace_files, cliVars>>

\* process_dependency_version: get_latest_version_async ends (or the timeout
\* of the scheduler elapses first); with Some(latest) and a current version
\* that differs the name is put into found_packages
CheckPayloadLookup ==
    /\ checkPc = "batch"
    /\ \E i \in TaskIndices : \E ans \in LookupOutcomes :
          LET dep_name == tasks[i]
              current_version ==
                  extract_version_from_spec(unique_dependencies[dep_name].version_spec)
          IN  /\ pc[i] = "running"
              /\ payloadPc[dep_name] = 0
              /\ registry' = [n \in (DOMAIN registry) \cup {dep_name} |->
                                 IF n = dep_name THEN ans ELSE registry[n]]
              /\ CASE ans.kind = "Elapsed" ->
                        /\ FinishPayload(i, "Timeout")
                        /\ UNCHANGED <<found_packages, payloadPc>>
                   [] ans.kind = "Err" ->
                        /\ FinishPayload(i, "Failed")
                        /\ UNCHANGED <<found_packages, payloadPc>>
                   [] ans.kind = "None" ->
                        /\ FinishPayload(i, "Success")
                        /\ UNCHANGED <<found_packages, payloadPc>>
                   [] ans.kind = "Some" ->
                        IF \/ current_version = ans.version
                           \/ is_version_satisfied(current_version, ans.version)
                        THEN /\ FinishPayload(i, "Success")
                             /\ UNCHANGED <<found_packages, payloadPc>>
                        ELSE /\ found_packages' = found_packages \cup {dep_name}
                             /\ payloadPc' = [payloadPc EXCEPT ![dep_name] = 1]
                             /\ UNCHANGED schedVars
    /\ UNCHANGED <<helperVars, cpu_count, package_files, unique_dependencies,
                   outdated_deps, total_deps, conflicts, checkPc>>
    /\ UNCHANGED <<planVars, execVars, workspace_files, cliVars>>

\* process_dependency_version: one turn of the loop over used_by
CheckPayloadPush ==
    /\ checkPc = "batch"
    /\ \E i \in TaskIndices :
          LET dep_name == tasks[i]
              dep_info == unique_dependencies[dep_name]
              k == payloadPc[dep_name]
          IN  /\ pc[i] = "running"
              /\ k \in 1..Len(dep_info.used_by)
              /\ outdated_deps' =
                    Append(outdated_deps,
                           [name |-> dep_name,
                            current |-> extract_version_from_spec(dep_info.version_spec),
                            latest |-> registry[dep_name].version,
                            package |-> dep_info.used_by[k][1],
                            dep_type |-> dep_info.used_by[k][2]])
              /\ payloadPc' = [payloadPc EXCEPT ![dep_name] = k + 1]
    /\ UNCHANGED <<helperVars, cpu_count, package_files, unique_dependencies,
                   registry, found_packages, total_deps, conflicts, checkPc>>
    /\ UNCHANGED <<planVars, schedVars, execVars, workspace_files, cliVars>>

\* process_dependency_version: Ok(()) after the loop
CheckPayloadReturn ==
    /\ checkPc = "batch"
    /\ \E i \in TaskIndices :
          /\ payloadPc[tasks[i]] = Len(unique_dependencies[tasks[i]].used_by) + 1
          /\ FinishPayload(i, "Success")
    /\ UNCHANGED <<planVars, execVars, checkVars>>

\* variant: the records are taken while lookup tasks may still run
CheckReturn_nowait ==
    /\ checkPc = "batch"
    /\ batchPc \in {"joining", "returned"}
    /\ checkPc' = "returned"
    /\ UNCHANGED <<helperVars, cpu_count, pipelineVars>>
    /\ UNCHANGED <<planVars, schedVars, execVars, workspace_files, cliVars>>

\* check_outdated_with_scheduler after execute_batch returned: the records
\* pushed so far are cloned and returned with total_deps
CheckReturn ==
    /\ checkPc = "batch"
    /\ batchPc = "returned"
    /\ checkPc' = "returned"
    /\ UNCHANGED <<helperVars, cpu_count, pipelineVars>>
    /\ UNCHANGED <<planVars, schedVars, execVars, workspace_files, cliVars>>

CheckNext ==
    \/ CheckCollect
    \/ SchedBegin
    \/ SchedCheckStop
    \/ SchedAcquire
    \/ CheckPayloadLookup
    \/ CheckPayloadPush
    \/ CheckPayloadReturn
    \/ SchedCountCompleted
    \/ SchedCountOutcome
    \/ SchedReport
    \/ SchedReturnTask
    \/ SchedJoin
    \/ SchedReturnBatch
    \/ CheckReturn

SpecCheck == CheckInit /\ [][CheckNext]_vars

\* the entries of the package files: <<index of the package file, dep_type,
\* dep_name>>
ScanEntries ==
    {e \in (1..Len(package_files)) \X Range(DEP_TYPES) \X DepNames :
        <<e[2], e[3]>> \in DOMAIN package_files[e[1]].deps}

EntrySpec(e) == package_files[e[1]].deps[<<e[2], e[3]>>]

\* the records pushed for an entry of the package files
RecordsOf(e) ==
    {j \in 1..Len(outdated_deps) :
        /\ outdated_deps[j].name = e[3]
        /\ outdated_deps[j].package = package_files[e[1]].name
        /\ outdated_deps[j].dep_type = e[2]}

\* C25: a usage whose version spec begins with workspace:, file: or link:, or
\* contains git+ or github:, gets no OutdatedDependency record, is in no
\* used_by list, and its dependency is looked up in the registry only when
\* another usage of it is not of these kinds.
C25_LocalKindsAreSkipped ==
    \A e \in ScanEntries :
        IsLocallyResolving(EntrySpec(e)) =>
            /\ RecordsOf(e) = {}
            /\ \A n \in DOMAIN unique_dependencies :
                  n = e[3] =>
                     <<package_files[e[1]].name, e[2]>>
                        \notin Range(unique_dependencies[n].used_by)
            /\ e[3] \in DOMAIN registry => NonSkippedUsages(e[3]) # {}

\* a skipped usage of a dependency for which another package got a record
C25_Witness ==
    /\ checkPc = "returned"
    /\ \E e \in ScanEntries :
          /\ IsLocallyResolving(EntrySpec(e))
          /\ \E j \in 1..Len(outdated_deps) : outdated_deps[j].name = e[3]

TypeIndex(t) == CHOOSE k \in 1..Len(DEP_TYPES) : DEP_TYPES[k] = t

\* the usage of d that the scan meets first
FirstUsage(d) ==
    CHOOSE u \in NonSkippedUsages(d) :
        \A v \in NonSkippedUsages(d) :
            \/ u[1] < v[1]
            \/ u[1] = v[1] /\ TypeIndex(u[2]) <= TypeIndex(v[2])

\* the bare version of the spec of d that the scan meets first
FirstSeenCurrent(d) ==
    extract_version_from_spec(package_files[FirstUsage(d)[1]].deps[<<FirstUsage(d)[2], d>>])

RecordsNamed(d) == {j \in 1..Len(outdated_deps) : outdated_deps[j].name = d}

\* the lookup of d answered Some(latest) with latest other than the current
IsOutdated(d) ==
    /\ d \in DOMAIN registry
    /\ registry[d].kind = "Some"
    /\ registry[d].version # FirstSeenCurrent(d)

\* C26: when the check returns, a deduplicated dependency whose lookup gave
\* Some(latest), latest differing from the bare version of its first-seen
\* spec, has exactly one record per entry of used_by, each with that current
\* and latest; one whose current equals latest or whose lookup failed has
\* none; the total is the number of deduplicated names.
C26_OneRecordPerUsedByEntry ==
    /\ \A d \in DOMAIN unique_dependencies : \A j \in RecordsNamed(d) :
          /\ IsOutdated(d)
          /\ outdated_deps[j].current = FirstSeenCurrent(d)
          /\ outdated_deps[j].latest = registry[d].version
    /\ checkPc = "returned" =>
          /\ total_deps = Cardinality({d \in DepNames : NonSkippedUsages(d) # {}})
          /\ total_deps = Cardinality(DOMAIN unique_dependencies)
          /\ \A d \in DOMAIN unique_dependencies :
                LET used_by == unique_dependencies[d].used_by
                IN  IF IsOutdated(d)
                    THEN /\ Cardinality(RecordsNamed(d)) = Len(used_by)
                         /\ \A k \in 1..Len(used_by) :
                               Cardinality({j \in RecordsNamed(d) :
                                   /\ outdated_deps[j].package = used_by[k][1]
                                   /\ outdated_deps[j].dep_type = used_by[k][2]}) = 1
                    ELSE RecordsNamed(d) = {}

\* x is used with two different specs by two packages and is outdated
C26_Witness ==
    /\ checkPc = "returned"
    /\ \E d \in DOMAIN unique_dependencies :
          /\ IsOutdated(d)
          /\ Len(unique_dependencies[d].used_by) >= 2
          /\ \E u \in NonSkippedUsages(d) :
                extract_version_from_spec(package_files[u[1]].deps[<<u[2], d>>])
                   # FirstSeenCurrent(d)
          /\ Cardinality(RecordsNamed(d)) >= 2

\* the records that the package files and the answers of the registry call for
ExpectedRecords ==
    {[name |-> d,
      current |-> FirstSeenCurrent(d),
      latest |-> registry[d].version,
      package |-> package_files[u[1]].name,
      dep_type |-> u[2]] :
        <<d, u>> \in {p \in DepNames \X ((1..Len(package_files)) \X Range(DEP_TYPES)) :
                        /\ p[2] \in NonSkippedUsages(p[1])
                        /\ IsOutdated(p[1])}}

\* C27: the set of records returned is determined by the package files and
\* the answers of the registry alone, whatever the interleaving of the lookup
\* tasks and the number of them that run at once.
C27_RecordSetIsDetermined ==
    checkPc = "returned" =>
        /\ DOMAIN registry = {d \in DepNames : NonSkippedUsages(d) # {}}
        /\ Range(outdated_deps) = ExpectedRecords

\* two lookup tasks ran at once and the task spawned second pushed first
C27_Witness ==
    /\ checkPc = "returned"
    /\ config.max_concurrency = 2
    /\ Len(tasks) = 2
    /\ Len(outdated_deps) = 2
    /\ outdated_deps[1].name = tasks[2]
    /\ outdated_deps[2].name = tasks[1]

(***************************************************************************)
(* C34: when a pass of the stage planner finds no package to place while   *)
(* packages remain unplaced, no stage at all is returned.                  *)
(***************************************************************************)
C34_StuckPlanEmitsNoStages ==
    (planPc = "analyzed" /\ UnionOfStages(stages) # PackageNames(packages)) =>
        stages = <<>>

\* the stage (from 1) that holds the package name n
StageOf(n) == CHOOSE k \in 1..Len(stages) : n \in stages[k]

\* the workspace dependencies of the name n, by its last-seen manifest
LastSeenDeps(n) == package_map(packages, n).workspace_dependencies

MaxOf(S) == CHOOSE x \in S : \A y \in S : y <= x

(***************************************************************************)
(* C35: the stages that analyze returns are non-empty and pairwise         *)
(* disjoint, the first stage is exactly the packages with no workspace     *)
(* dependency, and a package of a later stage sits one stage after the     *)
(* latest of its workspace dependencies.                                   *)
(***************************************************************************)
C35_EarliestPossibleStage ==
    (planPc = "analyzed" /\ stages # <<>>) =>
        /\ \A k \in 1..Len(stages) : stages[k] # {}
        /\ \A j, k \in 1..Len(stages) : j # k => stages[j] \cap stages[k] = {}
        /\ stages[1] = {n \in PackageNames(packages) : LastSeenDeps(n) = {}}
        /\ \A k \in 2..Len(stages) : \A n \in stages[k] :
              /\ LastSeenDeps(n) \subseteq UnionOfStages(stages)
              /\ k = 1 + MaxOf({StageOf(d) : d \in LastSeenDeps(n)})

\* a package of the third stage with dependencies in the first and second
C35_Witness ==
    /\ planPc = "analyzed"
    /\ Len(stages) = 3
    /\ \E n \in stages[3] :
          /\ LastSeenDeps(n) \cap stages[1] # {}
          /\ LastSeenDeps(n) \cap stages[2] # {}

\* the names from which the graph built for cycle detection has an edge to
\* (a node of) the name n
GraphDepsOf(n) ==
    {packages[e[1]].name :
        e \in {f \in build_dependency_graph(packages).edges : packages[f[2]].name = n}}

(***************************************************************************)
(* C33: for every scanned name, also one scanned twice, the dependency     *)
(* edges of the graph used for cycle detection and the dependencies used   *)
(* for stage planning come from the same manifest, the last seen one.      *)
(***************************************************************************)
C33_DuplicateNamesNotMerged ==
    planPc = "analyzed" =>
        \A n \in PackageNames(packages) : GraphDepsOf(n) = LastSeenDeps(n)

(***************************************************************************)
(* C38: whenever the single-package analysis of a target returns a         *)
(* non-empty stage list, the target is in that list, in its last stage.    *)
(***************************************************************************)
C38_TargetInLastStage ==
    (planPc = "analyzed_single" /\ stages # <<>>) =>
        target \in stages[Len(stages)]

\* tasks that have passed the increment of completed_count
CountedTasks ==
    {j \in TaskIndices : pc[j] \in {"counted", "tallied", "reported", "done"}
                         /\ result[j] # "Cancelled"}

(***************************************************************************)
(* C37: a task whose result is Cancelled never entered running. It got the *)
(* result straight from the read of the stop flag, in a step that left the *)
(* permits, the task-status map and the three counters alone, and it does  *)
(* nothing after it: it holds no permit, the map has no entry for its id   *)
(* (ids unique in the batch), and the counters count the other tasks only. *)
(***************************************************************************)
C37_CancelledNeverRan ==
    /\ [](\A i \in TaskIndices :
            result[i] = "Cancelled" =>
                /\ pc[i] = "done"
                /\ ~HoldsPermit(i)
                /\ UniqueIds => tasks[i] \notin DOMAIN task_status
                /\ completed_count = Cardinality(CountedTasks)
                /\ successful_count + failed_count <= Cardinality(CountedTasks))
    /\ [][\A i \in TaskIndices :
            (result[i] # "Cancelled" /\ result'[i] = "Cancelled") =>
                /\ pc[i] = "spawned"
                /\ permits' = permits
                /\ task_status' = task_status
                /\ counterVars' = counterVars]_vars

\* a batch of three tasks has returned: one was cancelled, one ended Success
\* and one Failed, and both of these were counted
C37_Witness ==
    /\ batchPc = "returned"
    /\ Len(tasks) = 3
    /\ UniqueIds
    /\ \E i, j, k \in TaskIndices :
          /\ result[i] = "Cancelled"
          /\ result[j] = "Success"
          /\ result[k] = "Failed"
    /\ completed_count = 2

(***************************************************************************)
(* One scheduler, several batches: execute_batch is called again on the    *)
(* same scheduler after the batch before has returned, and stop_all may be *)
(* called between two batches                                              *)
(***************************************************************************)
\* largest batch handed to a scheduler that is used for several batches
MaxReuseTasks == 2

ReuseConfigs ==
    [max_concurrency : {1}, timeout : {FALSE}, fail_fast : BOOLEAN,
     progress_callback : {FALSE}, task_completed_callback : {FALSE}]

\* batches of up to MaxReuseTasks tasks with unique ids
ReuseBatches == {[i \in 1..n |-> IdPool[i]] : n \in 0..MaxReuseTasks}

ReuseInit ==
    /\ PlanInit
    /\ ExecIdle
    /\ CheckIdle
    /\ \E cfg \in ReuseConfigs, batch \in ReuseBatches : SchedNew(cfg, batch)

\* variant: execute_batch keeps the stop flag as it finds it
SubmitBatch_keep_flag ==
    /\ batchPc = "idle"
    /\ IF tasks = <<>>
       THEN /\ batchPc' = "returned"
            /\ results' = <<>>
            /\ UNCHANGED <<should_stop, counterVars, pc>>
       ELSE /\ batchPc' = "joining"
            /\ completed_count' = 0
            /\ successful_count' = 0
            /\ failed_count' = 0
            /\ pc' = [i \in TaskIndices |-> "spawned"]
            /\ UNCHANGED <<should_stop, results>>
    /\ UNCHANGED <<config, tasks, result, permits, task_status, joined>>
    /\ UNCHANGED logVars
    /\ UNCHANGED <<planVars, execVars, checkVars>>

\* execute_batch is entered with the batch that was handed over
SubmitBatch == ExecuteBatchBegin /\ UNCHANGED <<planVars, execVars, checkVars>>

\* the caller hands the next batch to the scheduler whose last batch returned
NextBatch ==
    /\ batchPc = "returned"
    /\ \E batch \in ReuseBatches :
          /\ tasks' = batch
          /\ pc' = [i \in 1..Len(batch) |-> "unspawned"]
          /\ result' = [i \in 1..Len(batch) |-> "none"]
    /\ batchPc' = "idle"
    /\ joined' = 0
    /\ results' = <<>>
    /\ stop_all_called' = FALSE
    /\ UNCHANGED <<config, permits, should_stop, counterVars, task_status,
                   progress_log, progress_calls, task_completed_calls>>
    /\ UNCHANGED <<planVars, execVars, checkVars>>

\* stop_all, called while no batch is under way
StopAllBetween ==
    /\ batchPc \in {"idle", "returned"}
    /\ should_stop' = TRUE
    /\ UNCHANGED <<config, tasks, pc, result, permits, counterVars, task_status,
                   batchPc, joined, results>>
    /\ UNCHANGED logVars
    /\ UNCHANGED <<planVars, execVars, checkVars>>

ReuseNext ==
    \/ SubmitBatch
    \/ NextBatch
    \/ StopAllBetween
    \/ SchedCheckStop
    \/ SchedAcquire
    \/ SchedFinish
    \/ SchedPanic
    \/ SchedCountCompleted
    \/ SchedCountOutcome
    \/ SchedReport
    \/ SchedReturnTask
    \/ SchedJoin
    \/ SchedReturnBatch
    \/ SchedStopAll

SpecReuse == ReuseInit /\ [][ReuseNext]_vars

\* ids of the tasks of the batch
BatchIds == {tasks[i] : i \in TaskIndices}

(***************************************************************************)
(* C39: a call of execute_batch with a non-empty batch clears the stop     *)
(* flag and sets the three counters to zero, so a task of the batch is     *)
(* Cancelled only after a stop_all called during the batch or after a      *)
(* fail-fast non-success of this batch, never because of a stop that came  *)
(* before the call; a call with an empty batch returns the empty list and  *)
(* leaves the stop flag, the counters and the status map as they were.     *)
(***************************************************************************)
C39_BatchStartsClean ==
    /\ [][(batchPc = "idle" /\ batchPc' # "idle") =>
            IF tasks # <<>>
            THEN /\ ~should_stop'
                 /\ completed_count' = 0
                 /\ successful_count' = 0
                 /\ failed_count' = 0
            ELSE /\ batchPc' = "returned"
                 /\ results' = <<>>
                 /\ should_stop' = should_stop
                 /\ counterVars' = counterVars
                 /\ task_status' = task_status]_vars
    /\ [](\A i \in TaskIndices :
            result[i] = "Cancelled" =>
                \/ stop_all_called
                \/ /\ config.fail_fast
                   /\ \E j \in TaskIndices : result[j] \in {"Failed", "Timeout"})

\* a fail-fast scheduler whose earlier batch had a failed task (the status
\* map still has its entry) has run a later batch to the end: every task of
\* it ended Success and was counted, and the stop flag is clear
C39_Witness ==
    /\ config.fail_fast
    /\ batchPc = "returned"
    /\ tasks # <<>>
    /\ \E id \in (DOMAIN task_status) \ BatchIds :
          task_status[id].is_completed /\ ~task_status[id].is_success
    /\ \A i \in TaskIndices : result[i] = "Success"
    /\ completed_count = Len(tasks)
    /\ successful_count = Len(tasks)
    /\ ~should_stop

(***************************************************************************)
(* The scheduler under a fair runtime: a spawned task that can take a step *)
(* is polled, a waiter gets a permit that is free, and a payload that runs *)
(* ends (by itself, by a panic, or by the timeout when one is set).        *)
(* max_concurrency is a usize of the configuration and may be 0.           *)
(***************************************************************************)
FairConfigs ==
    [max_concurrency : 0..MaxConcurrency, timeout : BOOLEAN, fail_fast : BOOLEAN,
     progress_callback : {FALSE}, task_completed_callback : {FALSE}]

FairInit ==
    /\ PlanInit
    /\ ExecIdle
    /\ CheckIdle
    /\ \E cfg \in FairConfigs, batch \in Batches : SchedNew(cfg, batch)

\* the steps of execute_batch and of the tasks it spawned
SchedProgress ==
    \/ SchedBegin
    \/ SchedCheckStop
    \/ SchedAcquire
    \/ SchedFinish
    \/ SchedPanic
    \/ SchedCountCompleted
    \/ SchedCountOutcome
    \/ SchedReport
    \/ SchedReturnTask
    \/ SchedJoin
    \/ SchedReturnBatch

FairNext == SchedProgress \/ SchedStopAll

SpecFair == FairInit /\ [][FairNext]_vars /\ WF_vars(SchedProgress)

(***************************************************************************)
(* C36: with max_concurrency >= 1 and payloads that end, execute_batch     *)
(* eventually returns; a permit is out of the semaphore only while a task  *)
(* is between acquire and its return, so all permits are back when the     *)
(* batch returns. With max_concurrency = 0 no task ever starts, and a      *)
(* non-empty batch returns only if stop_all cancelled its tasks.           *)
(***************************************************************************)
C36_BatchEventuallyReturns ==
    /\ (config.max_concurrency >= 1) => <>(batchPc = "returned")
    /\ [](permits + Cardinality(Running) = config.max_concurrency)
    /\ [](batchPc = "returned" => permits = config.max_concurrency)
    /\ [](config.max_concurrency = 0 =>
            /\ Running = {}
            /\ \A i \in TaskIndices : pc[i] # "panicked" /\ result[i] \in {"none", "Cancelled"}
            /\ (batchPc = "returned" /\ tasks # <<>>) => stop_all_called)

\* a batch of three tasks on one permit has returned: one task timed out,
\* one failed and one panicked, and the permit is back in the semaphore
C36_Witness ==
    /\ config.max_concurrency = 1
    /\ Len(tasks) = 3
    /\ batchPc = "returned"
    /\ \E i, j, k \in TaskIndices :
          /\ result[i] = "Timeout"
          /\ result[j] = "Failed"
          /\ pc[k] = "panicked"
    /\ permits = 1

(***************************************************************************)
(* The walks over the workspace: scan_workspace_packages of the analyzer   *)
(* and collect_package_files of the health checker, with package.json      *)
(* files that may be unreadable or unparseable and may lie in the          *)
(* workspace root                                                          *)
(***************************************************************************)
\* most package.json files under the workspace root
MaxFiles == 2

\* a package.json file: whether its directory is the workspace root, whether
\* it can be read and parsed, and what it says when it can
ManifestFiles ==
    {[root |-> r, content |-> "ok", package_json |-> [name |-> n, deps |-> f]] :
        r \in BOOLEAN, n \in Range(CheckPackageNames),
        f \in DepObjects({<<"1">>, <<"2">>}, 0) \cup DepObjects({<<"1">>, <<"2">>}, 1)}
    \cup {[root |-> r, content |-> c, package_json |-> [name |-> "a", deps |-> <<>>]] :
            r \in BOOLEAN, c \in {"unreadable", "unparseable"}}

\* the files in walk order; one directory holds at most one package.json
Workspaces ==
    {w \in UNION {[1..n -> ManifestFiles] : n \in 0..MaxFiles} :
        \A i, j \in DOMAIN w : (w[i].root /\ w[j].root) => i = j}

\* scan_workspace_packages: a package.json whose parent is the workspace root
\* is passed over, one that does not parse is passed over, the others are
\* pushed as packages with the keys of all their dependency objects
scan_workspace_packages(files) ==
    LET kept == SelectSeq(files, LAMBDA f : ~f.root /\ f.content = "ok")
    IN  [i \in 1..Len(kept) |->
            [name |-> kept[i].package_json.name,
             dependencies |-> {sl[2] : sl \in DOMAIN kept[i].package_json.deps},
             workspace_dependencies |-> {}]]

\* scan_directory_for_packages: every file named package.json is pushed,
\* whatever its directory
scan_directory_for_packages(files) == SelectSeq(files, LAMBDA f : TRUE)

\* the loop `for package_file in package_files { parse_package_json(..)?; .. }`:
\* the files parsed before the first one that fails, and whether one failed
parsed_before_error(files) ==
    LET bad == {i \in 1..Len(files) : files[i].content # "ok"}
        n == IF bad = {} THEN Len(files) ELSE (CHOOSE i \in bad : \A j \in bad : i <= j) - 1
    IN  [failed |-> bad # {},
         parsed |-> [i \in 1..n |-> files[i].package_json]]

ScanInit ==
    /\ PlanInit
    /\ SchedIdle
    /\ ExecIdle
    /\ HelperIdle
    /\ PipelineIdle
    /\ cpu_count = 1
    /\ chunk_pos = <<>>
    /\ lookup_count = <<>>
    /\ cli_joined = 0
    /\ workspace_files \in Workspaces
    /\ checkPc = "start"

\* DependencyAnalyzer::scan_workspace_packages; no package at all is an error
ScanWorkspace ==
    /\ planPc = "scan"
    /\ packages' = scan_workspace_packages(workspace_files)
    /\ planPc' = IF packages' = <<>> THEN "error" ELSE "scanned"
    /\ UNCHANGED <<stages, circular_dependencies, target>>
    /\ UNCHANGED <<schedVars, execVars, checkVars>>

\* check_outdated_dependencies_with_progress up to collect_unique_dependencies:
\* an Err of parse_package_json is returned by `?`
CollectOutdated ==
    /\ checkPc = "start"
    /\ LET r == parsed_before_error(scan_directory_for_packages(workspace_files))
       IN  /\ package_files' = r.parsed
           /\ IF r.failed
              THEN /\ checkPc' = "outdated_error"
                   /\ UNCHANGED unique_dependencies
              ELSE /\ checkPc' = "collected"
                   /\ unique_dependencies' =
                        IF r.parsed = <<>> THEN <<>>
                        ELSE collect_unique_dependencies(r.parsed, 1, <<>>)
    /\ UNCHANGED <<helperVars, cpu_count, registry, outdated_deps, found_packages,
                   total_deps, conflicts, payloadPc, workspace_files, cliVars>>
    /\ UNCHANGED <<planVars, schedVars, execVars>>

\* check_version_conflicts: collect_package_files, then
\* collect_version_conflicts, where an Err of parse_package_json is returned
\* by `?`
CollectConflicts ==
    /\ checkPc = "start"
    /\ LET r == parsed_before_error(scan_directory_for_packages(workspace_files))
       IN  /\ package_files' = r.parsed
           /\ IF r.failed
              THEN /\ checkPc' = "conflicts_error"
                   /\ UNCHANGED conflicts
              ELSE /\ checkPc' = "conflicts"
                   /\ conflicts' =
                        IF r.parsed = <<>> THEN <<>>
                        ELSE find_version_conflicts(collect_all_usages(r.parsed, 1, <<>>))
    /\ UNCHANGED <<helperVars, cpu_count, registry, outdated_deps, found_packages,
                   total_deps, unique_dependencies, payloadPc, workspace_files, cliVars>>
    /\ UNCHANGED <<planVars, schedVars, execVars>>

ScanNext == ScanWorkspace \/ CollectOutdated \/ CollectConflicts

SpecScan == ScanInit /\ [][ScanNext]_vars

\* the package.json files that read and parse
GoodFiles == SelectSeq(workspace_files, LAMBDA f : f.content = "ok")

\* the package.json files below the workspace root, not in it
InnerFiles == SelectSeq(workspace_files, LAMBDA f : ~f.root)

JsonsOf(files) == [i \in 1..Len(files) |-> files[i].package_json]

(***************************************************************************)
(* C31: a package.json that cannot be read or parsed is fatal to no flow:  *)
(* stage planning, the outdated check and the version-conflict detection   *)
(* pass it over and work on the other files, as if it were not there.      *)
(***************************************************************************)
C31_BadManifestIsSkipped ==
    /\ planPc \in {"scanned", "error"} =>
          packages = scan_workspace_packages(GoodFiles)
    /\ checkPc \notin {"outdated_error", "conflicts_error"}
    /\ checkPc \in {"collected", "conflicts"} =>
          package_files = JsonsOf(scan_directory_for_packages(GoodFiles))

(***************************************************************************)
(* C32: no flow parses a package.json that lies directly in the workspace  *)
(* root: the files a flow has parsed are files below the root.             *)
(***************************************************************************)
C32_RootManifestNotParsed ==
    /\ planPc \in {"scanned", "error"} =>
          packages = scan_workspace_packages(InnerFiles)
    /\ checkPc \in {"collected", "conflicts"} =>
          package_files = JsonsOf(SelectSeq(InnerFiles, LAMBDA f : f.content = "ok"))

(***************************************************************************)
(* src/cli/check.rs, check_outdated_dependencies: the deduplicated         *)
(* dependencies are cut into chunks and one worker thread is spawned per   *)
(* chunk. Its calculate_optimal_thread_count (799-815) is the text of the  *)
(* function of the same name in src/core/checker.rs.                       *)
(***************************************************************************)
\* most deduplicated dependencies handed to the worker threads
MaxCliDeps == 6

\* std::cmp::max(1, unique_dependencies.len() / thread_count)
chunk_size == Max(1, dependency_count \div thread_count)

\* slice::chunks(chunk_size): the number of chunks, and the dependencies
\* (positions in key order) of chunk w; the last chunk may be shorter
chunk_count == (dependency_count + chunk_size - 1) \div chunk_size

chunk(w) ==
    [k \in 1..(Min(w * chunk_size, dependency_count) - (w - 1) * chunk_size) |->
        (w - 1) * chunk_size + k]

CliInit ==
    /\ PlanInit
    /\ SchedIdle
    /\ ExecIdle
    /\ PipelineIdle
    /\ workspace_files = <<>>
    /\ version_spec = <<>>
    /\ version = <<>>
    /\ skip = FALSE
    /\ dependency_count \in 1..MaxCliDeps
    /\ cpu_count \in 1..2
    /\ thread_count = 0
    /\ chunk_pos = <<>>
    /\ lookup_count = [d \in 1..dependency_count |-> 0]
    /\ cli_joined = 0
    /\ checkPc = "cli_start"

\* let thread_count = calculate_optimal_thread_count(unique_dependencies.len())
CliThreadCount ==
    /\ checkPc = "cli_start"
    /\ thread_count' = calculate_optimal_thread_count(dependency_count, cpu_count)
    /\ checkPc' = "cli_spawn"
    /\ UNCHANGED <<version_spec, version, skip, dependency_count, cpu_count,
                   pipelineVars, workspace_files, cliVars>>
    /\ UNCHANGED <<planVars, schedVars, execVars>>

\* the loop over the chunks: thread::spawn for the next chunk; after the last
\* one the main thread goes on to join the handles
SpawnWorker ==
    /\ checkPc = "cli_spawn"
    /\ chunk_pos' = Append(chunk_pos, 0)
    /\ checkPc' = IF Len(chunk_pos) + 1 = chunk_count THEN "cli_join" ELSE "cli_spawn"
    /\ UNCHANGED <<helperVars, cpu_count, pipelineVars, workspace_files,
                   lookup_count, cli_joined>>
    /\ UNCHANGED <<planVars, schedVars, execVars>>

\* a worker thread takes the next dependency of its chunk: get_latest_version
\* is called for it, the records are pushed, checked_count is incremented
WorkerLookup ==
    /\ \E w \in 1..Len(chunk_pos) :
          /\ chunk_pos[w] < Len(chunk(w))
          /\ lookup_count' = [lookup_count EXCEPT ![chunk(w)[chunk_pos[w] + 1]] = @ + 1]
          /\ chunk_pos' = [chunk_pos EXCEPT ![w] = @ + 1]
    /\ UNCHANGED <<helperVars, cpu_count, pipelineVars, checkPc, workspace_files,
                   cli_joined>>
    /\ UNCHANGED <<planVars, schedVars, execVars>>

\* for handle in handles { handle.join() }: the next worker, in spawn order,
\* has ended
JoinWorker ==
    /\ checkPc = "cli_join"
    /\ cli_joined < Len(chunk_pos)
    /\ chunk_pos[cli_joined + 1] = Len(chunk(cli_joined + 1))
    /\ cli_joined' = cli_joined + 1
    /\ checkPc' = IF cli_joined + 1 = Len(chunk_pos) THEN "cli_done" ELSE "cli_join"
    /\ UNCHANGED <<helperVars, cpu_count, pipelineVars, workspace_files,
                   chunk_pos, lookup_count>>
    /\ UNCHANGED <<planVars, schedVars, execVars>>

CliNext == CliThreadCount \/ SpawnWorker \/ WorkerLookup \/ JoinWorker

SpecCli == CliInit /\ [][CliNext]_vars

\* the worker threads that were spawned and have not ended
LiveWorkers == {w \in 1..Len(chunk_pos) : chunk_pos[w] < Len(chunk(w))}

(***************************************************************************)
(* C40: in the outdated check of the cli the number of worker threads      *)
(* alive at one time never exceeds calculate_optimal_thread_count(n), for  *)
(* n >= 1 deduplicated dependencies, and every dependency is looked up     *)
(* exactly once.                                                           *)
(***************************************************************************)
C40_WorkersWithinThreadCount ==
    /\ Cardinality(LiveWorkers) <=
          calculate_optimal_thread_count(dependency_count, cpu_count)
    /\ \A d \in DOMAIN lookup_count : lookup_count[d] <= 1
    /\ checkPc = "cli_done" => \A d \in DOMAIN lookup_count : lookup_count[d] = 1

====
